---- MODULE Spec2Model ----
(***************************************************************************)
(* The auto-update library manager (package tuf, updateLibraryManager):    *)
(* AddToLibrary, TidyLibrary, Available and Close, run by concurrent       *)
(* callers over a shared staging directory and one update library per      *)
(* binary; and the launcher's UpdateFinalizer, which replaces the process. *)
(* Three units outside the manager are modelled on their own: main of the  *)
(* osquery extension, checkExecutablePermissions on Windows, and           *)
(* encodeJSONRPCPublishResultsResponse.                                    *)
(*                                                                         *)
(* File system and network calls are steps of their own; each may fail     *)
(* where the code returns the error.  os.RemoveAll on a staged entry or on *)
(* a library entry is taken to succeed (its failure is only logged).       *)
(***************************************************************************)
EXTENDS Integers, Sequences, FiniteSets, TLC

VARIABLES
    lib,            \* lib[b]: directory name -> contents, <base>/<binary>/*
    stagingExists,  \* whether ulm.stagingDir exists
    staging,        \* entry name -> entry, <stagingDir>/*
    lock,           \* ulm.lock: binary -> holder
    pc,             \* pc[t]: position of caller t
    args,           \* args[t]: the call t is executing
    loc,            \* loc[t]: the local variables of that call
    last,           \* the call that returned last, when calls are recorded
    callers,        \* the callers that share the manager
    releases,       \* version -> archive the publisher signed for it
    currents,       \* the values callers pass as the current running version
    statuses,       \* the status codes the mirror answers with
    proc,           \* the launcher process: its context, its image, its finalizer
    budget,         \* the number of calls still to be made
    baseDir,        \* ulm.baseDir, the path of <base>
    ext,            \* the osquery-extension process: main's position and its extension
    win,            \* a call of checkExecutablePermissions (Windows)
    rpc             \* a call of encodeJSONRPCPublishResultsResponse

vars ==
    <<lib, stagingExists, staging, lock, pc, args, loc, last, callers, releases, currents,
      statuses, proc, budget, baseDir, ext, win, rpc>>

\* the units that are no part of the library manager
unitVars == <<ext, win, rpc>>

----------------------------------------------------------------------------
(* Bounds *)

\* length of a published archive, as declared in the target metadata
MetaLength == 1

\* how many bytes a response of the mirror may run past the declared length
ExtraBytes == 1

\* largest byte value of an archive
MaxByte == 3

\* number of calls concurrent callers make in all
MaxCalls == 3

\* number of calls a single caller makes in a row
MaxSeqCalls == 2

\* number of calls concurrent callers make in all when every call is
\* followed to its return
MaxFairCalls == 2

----------------------------------------------------------------------------
(* Strings *)

HasPrefix(s, p) == Len(s) >= Len(p) /\ SubSeq(s, 1, Len(p)) = p

HasSuffix(s, p) == Len(s) >= Len(p) /\ SubSeq(s, Len(s) - Len(p) + 1, Len(s)) = p

TrimPrefix(s, p) == IF HasPrefix(s, p) THEN SubSeq(s, Len(p) + 1, Len(s)) ELSE s

TrimSuffix(s, p) == IF HasSuffix(s, p) THEN SubSeq(s, 1, Len(s) - Len(p)) ELSE s

\* position of the first occurrence of the character c in s, 0 when absent
IndexByte(s, c) ==
    IF \E i \in 1..Len(s) : SubSeq(s, i, i) = c
    THEN CHOOSE i \in 1..Len(s) :
            /\ SubSeq(s, i, i) = c
            /\ \A j \in 1..(i - 1) : SubSeq(s, j, j) # c
    ELSE 0

DigitChars == {"0", "1", "2", "3", "4", "5", "6", "7", "8", "9"}

LetterChars == {"a", "b", "c", "d", "e", "f", "g", "h", "i", "j", "k", "l", "m",
                "n", "o", "p", "q", "r", "s", "t", "u", "v", "w", "x", "y", "z"}

DigitVal(c) ==
    CASE c = "0" -> 0 [] c = "1" -> 1 [] c = "2" -> 2 [] c = "3" -> 3
      [] c = "4" -> 4 [] c = "5" -> 5 [] c = "6" -> 6 [] c = "7" -> 7
      [] c = "8" -> 8 [] c = "9" -> 9

IsNumber(s) == Len(s) > 0 /\ \A i \in 1..Len(s) : SubSeq(s, i, i) \in DigitChars

RECURSIVE Atoi(_)
Atoi(s) ==
    IF Len(s) = 0 THEN 0
    ELSE 10 * Atoi(SubSeq(s, 1, Len(s) - 1)) + DigitVal(SubSeq(s, Len(s), Len(s)))

\* [0-9A-Za-z\-]+(\.[0-9A-Za-z\-]+)*  (lower-case letters only)
IsIdentifiers(s) ==
    /\ Len(s) > 0
    /\ \A i \in 1..Len(s) : SubSeq(s, i, i) \in DigitChars \cup LetterChars \cup {"-", "."}
    /\ SubSeq(s, 1, 1) # "."
    /\ SubSeq(s, Len(s), Len(s)) # "."
    /\ \A i \in 1..(Len(s) - 1) : ~(SubSeq(s, i, i) = "." /\ SubSeq(s, i + 1, i + 1) = ".")

----------------------------------------------------------------------------
(* Semantic versions (github.com/Masterminds/semver) *)

\* s cut at the first occurrence of the character c
Cut(s, c) ==
    LET i == IndexByte(s, c)
    IN  IF i = 0
        THEN [head |-> s, tail |-> "", found |-> FALSE]
        ELSE [head |-> SubSeq(s, 1, i - 1), tail |-> SubSeq(s, i + 1, Len(s)), found |-> TRUE]

\* the version of raw, from its parts: m is the text cut at "+", p what
\* precedes the metadata cut at "-", a the core cut at its first ".", b the
\* rest of the core cut at its next "."
MakeVersion(raw, m, p, a, b) ==
    IF /\ IsNumber(a.head)
       /\ (a.found => IsNumber(b.head))
       /\ (b.found => IsNumber(b.tail))
       /\ (p.found => IsIdentifiers(p.tail))
       /\ (m.found => IsIdentifiers(m.tail))
    THEN [ok |-> TRUE, major |-> Atoi(a.head), minor |-> Atoi(b.head),
          patch |-> Atoi(b.tail), pre |-> p.tail, original |-> raw]
    ELSE [ok |-> FALSE, major |-> 0, minor |-> 0, patch |-> 0,
          pre |-> "", original |-> raw]

ParseCore(raw, m, p, a) == MakeVersion(raw, m, p, a, Cut(a.tail, "."))

ParsePrerelease(raw, m, p) == ParseCore(raw, m, p, Cut(p.head, "."))

ParseMetadata(raw, m) == ParsePrerelease(raw, m, Cut(m.head, "-"))

\* semver.NewVersion: v?([0-9]+)(\.[0-9]+)?(\.[0-9]+)?(-pre)?(\+meta)?
ParseVersion(raw) == ParseMetadata(raw, Cut(TrimPrefix(raw, "v"), "+"))

\* the names that libraries, releases and callers use most, parsed once
ParsedNames ==
    [raw \in {"", "1.0.0", "1.1.0", "1.2.0", "1.3.0", "1.4.0", "2.0.0",
              "1.1.0-brokenexe", "not-a-version"} |-> ParseVersion(raw)]

\* semver.NewVersion, looked up when the name was parsed before
NewVersion(raw) == IF raw \in DOMAIN ParsedNames THEN ParsedNames[raw] ELSE ParseVersion(raw)

\* Version.Compare on the numeric triple, then on the prerelease: a release
\* sorts after its own prereleases.  Two different prereleases of one triple
\* are not told apart here.
Compare(x, y) ==
    \/ x.major < y.major
    \/ x.major = y.major /\ x.minor < y.minor
    \/ x.major = y.major /\ x.minor = y.minor /\ x.patch < y.patch
    \/ x.major = y.major /\ x.minor = y.minor /\ x.patch = y.patch
       /\ x.pre # "" /\ y.pre = ""

\* semver.Collection.Less
VersionLess(a, b) == Compare(NewVersion(a), NewVersion(b))

\* sort.Sort(semver.Collection(...)): the names of S in ascending order
RECURSIVE SortVersions(_)
SortVersions(S) ==
    IF S = {} THEN <<>>
    ELSE LET m == CHOOSE v \in S : \A w \in S : ~VersionLess(w, v)
         IN  <<m>> \o SortVersions(S \ {m})

----------------------------------------------------------------------------
(* Names and paths *)

binaries == <<"launcher", "osqueryd">>

Binaries == {binaries[i] : i \in 1..Len(binaries)}

\* a version taken as the part of the filename between the first two hyphens
versionFromTargetSplit(binary, targetFilename) ==
    Cut(TrimSuffix(TrimPrefix(targetFilename, binary \o "-"), ".tar.gz"), "-").head

versionFromTarget(binary, targetFilename) ==
    TrimSuffix(TrimPrefix(targetFilename, binary \o "-"), ".tar.gz")

\* the canonical target filename of a release
TargetName(binary, version) == binary \o "-" \o version \o ".tar.gz"

----------------------------------------------------------------------------
(* Archives, digests and target metadata *)

Bytes == 0..MaxByte

BodiesOfLen(n) == [1..n -> Bytes]

\* the response bodies the mirror may serve
Bodies == UNION {BodiesOfLen(n) : n \in 0..(MetaLength + ExtraBytes)}

RECURSIVE WeightedSum(_)
WeightedSum(s) ==
    IF Len(s) = 0 THEN 0 ELSE WeightedSum(SubSeq(s, 1, Len(s) - 1)) + Len(s) * s[Len(s)]

RECURSIVE PlainSum(_)
PlainSum(s) ==
    IF Len(s) = 0 THEN 0 ELSE PlainSum(SubSeq(s, 1, Len(s) - 1)) + s[Len(s)]

HashAlgorithms == {"sha256", "sha512"}

\* the digest of a byte string under one algorithm (small checksums)
Digest(algo, s) ==
    IF algo = "sha256" THEN WeightedSum(s) % 5 ELSE (PlainSum(s) + Len(s)) % 4

\* a reader without the limit
LimitReaderUnlimited(body, n) == body

\* io.LimitReader(resp.Body, n) read to its end
LimitReader(body, n) == IF Len(body) <= n THEN body ELSE SubSeq(body, 1, n)

\* what a read of the limited response can yield: the bytes read, and
\* whether the response had more
LimitedBodies(n) ==
    {[buf |-> LimitReader(body, n), truncated |-> Len(body) > n] : body \in Bodies}

\* tufutil.GenerateTargetFileMeta
GenerateTargetFileMeta(s, algos) ==
    [length |-> Len(s), hashes |-> [a \in algos |-> Digest(a, s)]]

\* a comparison that looks at the length only
TargetFileMetaEqualLengthOnly(actual, expected) == actual.length = expected.length

\* a comparison whose outcome is ignored
TargetFileMetaEqualIgnored(actual, expected) == TRUE

\* tufutil.TargetFileMetaEqual: nil iff the lengths agree, every expected
\* digest the actual metadata also has is equal, and one was compared
TargetFileMetaEqual(actual, expected) ==
    /\ actual.length = expected.length
    /\ \A a \in DOMAIN expected.hashes :
          a \in DOMAIN actual.hashes => actual.hashes[a] = expected.hashes[a]
    /\ \E a \in DOMAIN expected.hashes : a \in DOMAIN actual.hashes

\* what the archive holds: its first byte tells a corrupt archive (0) from
\* one with a working executable (odd) and one with a failing executable
ArchiveKind(s) ==
    IF Len(s) = 0 \/ s[1] = 0 THEN "corrupt" ELSE IF s[1] % 2 = 1 THEN "good" ELSE "bad"

\* archives of the declared length, one of each kind
GoodArchive == [i \in 1..MetaLength |-> IF i = 1 THEN 1 ELSE 0]

BadArchive == [i \in 1..MetaLength |-> IF i = 1 THEN 2 ELSE 0]

CorruptArchive == [i \in 1..MetaLength |-> 0]

----------------------------------------------------------------------------
(* Directories *)

\* a directory is the state of the executable of each binary in it:
\* "none", or the outcome of its --version run, with "+x" once executable
EmptyDir == [b \in Binaries |-> "none"]

DirWith(binary, file) == [b \in Binaries |-> IF b = binary THEN file ELSE "none"]

\* autoupdate.CheckExecutable(ctx, executableLocation(dir, binary), "--version") == nil
CheckExecutable(dir, binary) == dir[binary] = "good+x"

Chmod(file) == IF file \in {"good", "good+x"} THEN "good+x" ELSE "bad+x"

\* an entry of the staging directory
FileEntry(bytes) == [kind |-> "file", bytes |-> bytes, dir |-> EmptyDir]

DirEntry(dir) == [kind |-> "dir", bytes |-> <<>>, dir |-> dir]

NoEntries == [n \in {} |-> EmptyDir]

Remove(f, names) == [n \in DOMAIN f \ names |-> f[n]]

Put(f, name, value) == [n \in DOMAIN f \cup {name} |-> IF n = name THEN value ELSE f[n]]

----------------------------------------------------------------------------
(* State *)

Threads == {"t1", "t2"}

NoHolder == "free"

NoMeta == [length |-> 0, hashes |-> [a \in {} |-> 0]]

NoArgs == [op |-> "none", binary |-> "", cur |-> "", target |-> "", meta |-> NoMeta]

NoLocals ==
    [err |-> "", buf |-> <<>>, truncated |-> FALSE, fetched |-> FALSE, probed |-> FALSE,
     versions |-> <<>>, invalid |-> {}, pre |-> NoEntries, idx |-> 0, status |-> 0]

\* no call has returned yet, and calls are not recorded
NoLast ==
    [op |-> "none", binary |-> "", cur |-> "", target |-> "", err |-> "", requested |-> FALSE]

Unrecorded == [NoLast EXCEPT !.op = "off"]

\* the metadata the metadata store holds for a release
MetaOf(bytes) == GenerateTargetFileMeta(bytes, HashAlgorithms)

\* a library entry with a working executable, one whose executable fails
ValidDir(binary) == DirWith(binary, "good+x")

BrokenDir(binary) == DirWith(binary, "bad+x")

\* the libraries a manager may be constructed over, for concurrent callers
SmallLibraries(binary) ==
    { NoEntries,
      Put(Put(NoEntries, "1.0.0", ValidDir(binary)), "1.1.0", BrokenDir(binary)) }

SmallReleases == Put(NoEntries, "1.1.0", GoodArchive)

SmallCurrents == {"", "1.1.0"}

\* the status codes of a response of the mirror: the archive, or an error
StatusOK == 200

StatusNotFound == 404

\* the launcher process before its finalizer has run: the context of the
\* caller is live, osquery runs, and the image is the one that was started
\* with os.Args and os.Environ()
NoProcess ==
    [ctx |-> "live", hook |-> "none", path |-> "", err |-> "",
     image |-> "", argv |-> "os.Args", env |-> "os.Environ"]

\* newUpdateLibraryManager: the library directories exist, the staging
\* directory is new and empty, no lock is held, no call is in progress
\* the extension process before main has run
NoExtension ==
    [pc |-> "off", flVersion |-> FALSE, db |-> "closed", enrolled |-> FALSE,
     starts |-> 0, shutdowns |-> 0, deferred |-> <<>>, exit |-> "none"]

\* what os.Stat returns before it is called
NoStat == [info |-> "nil", err |-> ""]

\* no call of checkExecutablePermissions
NoCheck == [pc |-> "off", potentialBinary |-> "", stat |-> NoStat, err |-> ""]

\* what json.Marshal returns before it is called
NoMarshal == [b |-> "nil", err |-> ""]

\* no call of encodeJSONRPCPublishResultsResponse
NoEncode == [pc |-> "off", obj |-> "nil", marshal |-> NoMarshal, b |-> "nil", err |-> ""]

\* a base directory whose path holds no character of a glob pattern
DefaultBaseDir == "updates"

InitManager ==
    /\ stagingExists = TRUE
    /\ staging = NoEntries
    /\ lock = [b \in Binaries |-> NoHolder]
    /\ pc = [t \in Threads |-> "idle"]
    /\ args = [t \in Threads |-> NoArgs]
    /\ loc = [t \in Threads |-> NoLocals]
    /\ proc = NoProcess
    /\ ext = NoExtension
    /\ win = NoCheck
    /\ rpc = NoEncode

Init ==
    /\ InitManager
    /\ last = Unrecorded
    /\ callers = Threads
    /\ releases = SmallReleases
    /\ currents = SmallCurrents
    /\ baseDir = DefaultBaseDir
    /\ statuses = {StatusOK}
    /\ budget = MaxCalls
    /\ lib \in [Binaries -> UNION {SmallLibraries(b) : b \in Binaries}]
    /\ \A b \in Binaries : lib[b] \in SmallLibraries(b)

\* the entries a library may hold when a single caller starts on it
SeqNames == {"1.0.0", "1.1.0", "1.2.0", "1.3.0", "1.4.0", "1.1.0-brokenexe", "not-a-version"}

\* a name that parses holds an executable: a failing one for the
\* prerelease name, a working or a failing one for the oldest version, a
\* working one for the others; any other name is an empty directory
LibrariesOver(binary, S) ==
    {f \in [S -> {ValidDir(binary), BrokenDir(binary), EmptyDir}] :
        \A n \in S :
            /\ (f[n] = EmptyDir) <=> ~NewVersion(n).ok
            /\ NewVersion(n).pre # "" => f[n] = BrokenDir(binary)
            /\ f[n] = BrokenDir(binary) => (n = "1.0.0" \/ NewVersion(n).pre # "")}

RichLibraries(binary) == UNION {LibrariesOver(binary, S) : S \in SUBSET SeqNames}

RichReleases ==
    Put(Put(Put(NoEntries, "1.1.0", GoodArchive), "1.2.0", BadArchive), "1.3.0", CorruptArchive)

SeqCurrents == {"", "1.0.0", "1.2.0", "2.0.0"}

\* one caller, and any library for the launcher
InitSeq ==
    /\ InitManager
    /\ last = Unrecorded
    /\ callers = {"t1"}
    /\ releases = RichReleases
    /\ currents = SeqCurrents
    /\ baseDir = DefaultBaseDir
    /\ statuses = {StatusOK}
    /\ budget = MaxSeqCalls
    /\ \E library \in RichLibraries("launcher") :
         lib = [b \in Binaries |-> IF b = "launcher" THEN library ELSE NoEntries]

\* the sets of entries a library may hold when calls are recorded
PairNames ==
    { {},
      {"1.0.0"},
      {"1.0.0", "not-a-version", "1.1.0-brokenexe"},
      {"1.0.0", "1.1.0", "1.2.0", "1.3.0"},
      {"1.0.0", "1.1.0", "1.2.0", "1.3.0", "1.4.0"},
      SeqNames }

PairLibraries(binary) == UNION {LibrariesOver(binary, S) : S \in PairNames}

\* one caller whose calls are recorded, over one of a few launcher
\* libraries, with one release published and one version running
InitPair ==
    /\ InitManager
    /\ last = NoLast
    /\ callers = {"t1"}
    /\ \E v \in DOMAIN RichReleases : releases = Put(NoEntries, v, RichReleases[v])
    /\ \E cur \in SeqCurrents : currents = {cur}
    /\ baseDir = DefaultBaseDir
    /\ statuses = {StatusOK}
    /\ budget = MaxSeqCalls
    /\ \E library \in PairLibraries("launcher") :
         lib = [b \in Binaries |-> IF b = "launcher" THEN library ELSE NoEntries]

\* releases whose versions carry a prerelease, build metadata, and the
\* characters of the prefix and of the extension of a target filename
MirrorReleases ==
    Put(Put(Put(NoEntries, "1.1.0", GoodArchive), "1.2.0-launcher-1+b.7", GoodArchive),
        "1.0.0-x.tar.gz", GoodArchive)

\* the small libraries, and one where the directory of version 1.1.0 was
\* left empty, as os.RemoveAll leaves it when it is interrupted after the
\* contents are gone
MirrorLibraries(binary) == SmallLibraries(binary) \cup {Put(NoEntries, "1.1.0", EmptyDir)}

\* one caller, and a mirror that answers a request with the archive or
\* with an error status
InitMirror ==
    /\ InitManager
    /\ last = Unrecorded
    /\ callers = {"t1"}
    /\ releases = MirrorReleases
    /\ currents = SmallCurrents
    /\ baseDir = DefaultBaseDir
    /\ statuses = {StatusOK, StatusNotFound}
    /\ budget = MaxSeqCalls
    /\ \E library \in MirrorLibraries("launcher") :
         lib = [b \in Binaries |-> IF b = "launcher" THEN library ELSE NoEntries]

\* a base directory whose path is a malformed glob pattern
BadPatternBaseDir == "updates["

\* one caller that tidies, over any library for the launcher, under a base
\* directory that can or cannot be globbed
InitScan ==
    /\ InitManager
    /\ last = Unrecorded
    /\ callers = {"t1"}
    /\ releases = NoEntries
    /\ currents = SeqCurrents
    /\ baseDir \in {DefaultBaseDir, BadPatternBaseDir}
    /\ statuses = {StatusOK}
    /\ budget = MaxSeqCalls
    /\ \E library \in RichLibraries("launcher") :
         lib = [b \in Binaries |-> IF b = "launcher" THEN library ELSE NoEntries]

\* two concurrent callers over empty libraries, with 1.0.0 running
InitFair ==
    /\ InitManager
    /\ last = Unrecorded
    /\ callers = Threads
    /\ releases = SmallReleases
    /\ currents = {"1.0.0"}
    /\ baseDir = DefaultBaseDir
    /\ statuses = {StatusOK}
    /\ budget = MaxFairCalls
    /\ lib = [b \in Binaries |-> NoEntries]

----------------------------------------------------------------------------
(* The library lock *)

Lock(binary, t) == lock[binary] = NoHolder /\ lock' = [lock EXCEPT ![binary] = t]

Unlock(binary) == lock' = [lock EXCEPT ![binary] = NoHolder]

----------------------------------------------------------------------------
(* The process *)

\* the process runs its callers until syscall.Exec replaces its image
Running == proc.image = ""

----------------------------------------------------------------------------
(* Calls *)

Goto(t, label) == pc' = [pc EXCEPT ![t] = label]

SetLocal(t, l) == loc' = [loc EXCEPT ![t] = l]

\* a return with the given error, once the deferred calls have run
Fail(t, label, err) == Goto(t, label) /\ SetLocal(t, [loc[t] EXCEPT !.err = err])

CallAdd(t) ==
    /\ Running /\ pc[t] = "idle" /\ t \in callers /\ budget > 0
    /\ budget' = budget - 1
    /\ \E binary \in Binaries, version \in DOMAIN releases :
         \E cur \in currents :
            args' = [args EXCEPT ![t] =
                        [op |-> "add", binary |-> binary, cur |-> cur,
                         target |-> TargetName(binary, version),
                         meta |-> MetaOf(releases[version])]]
    /\ Goto(t, "add_lock")
    /\ UNCHANGED <<lib, stagingExists, staging, lock, loc, last, callers, releases, currents, statuses, baseDir, unitVars, proc>>

CallTidy(t) ==
    /\ Running /\ pc[t] = "idle" /\ t \in callers /\ budget > 0
    /\ budget' = budget - 1
    /\ \E binary \in Binaries :
         \E cur \in currents :
            args' = [args EXCEPT ![t] =
                        [NoArgs EXCEPT !.op = "tidy", !.binary = binary, !.cur = cur]]
    /\ Goto(t, "tidy_lock")
    /\ UNCHANGED <<lib, stagingExists, staging, lock, loc, last, callers, releases, currents, statuses, baseDir, unitVars, proc>>

CallClose(t) ==
    /\ Running /\ pc[t] = "idle" /\ t \in callers /\ budget > 0
    /\ budget' = budget - 1
    /\ args' = [args EXCEPT ![t] = [NoArgs EXCEPT !.op = "close"]]
    /\ SetLocal(t, [NoLocals EXCEPT !.idx = 1])
    /\ Goto(t, "close_lock")
    /\ UNCHANGED <<lib, stagingExists, staging, lock, last, callers, releases, currents, statuses, baseDir, unitVars, proc>>

\* the call sent its request to the mirror (mirrorClient.Get was called)
Requested(l) == l.fetched \/ l.err \in {"download", "read"}

\* the return of a call: the caller is ready for its next call, and the
\* call is recorded when calls are
Return(t) ==
    /\ Goto(t, "idle")
    /\ args' = [args EXCEPT ![t] = NoArgs]
    /\ SetLocal(t, NoLocals)
    /\ last' = IF last = Unrecorded
               THEN last
               ELSE [op |-> args[t].op, binary |-> args[t].binary, cur |-> args[t].cur,
                     target |-> args[t].target, err |-> loc[t].err,
                     requested |-> Requested(loc[t])]

----------------------------------------------------------------------------
(* tidyStagedUpdates *)

\* filepath.Glob(stagingDir/*) and os.RemoveAll of every match
tidyStagedUpdates == staging' = Remove(staging, DOMAIN staging)

----------------------------------------------------------------------------
(* AddToLibrary *)

\* an Available that also finds the candidate in the staging directory
AvailableInStaging(binary, targetFilename) ==
    LET targetVersion == versionFromTarget(binary, targetFilename)
    IN  \/ /\ targetVersion \in DOMAIN lib[binary]
           /\ CheckExecutable(lib[binary][targetVersion], binary)
        \/ /\ targetVersion \in DOMAIN staging
           /\ CheckExecutable(staging[targetVersion].dir, binary)

\* Available
Available(binary, targetFilename) ==
    LET targetVersion == versionFromTarget(binary, targetFilename)
    IN  /\ targetVersion \in DOMAIN lib[binary]
        /\ CheckExecutable(lib[binary][targetVersion], binary)

\* an AddToLibrary that does not wait for the lock
AddLockNoWait(t) ==
    /\ Running /\ pc[t] = "add_lock"
    /\ lock' = [lock EXCEPT ![args[t].binary] = t]
    /\ SetLocal(t, [loc[t] EXCEPT !.pre = lib[args[t].binary]])
    /\ Goto(t, "add_current")
    /\ UNCHANGED <<lib, stagingExists, staging, args, last, callers, releases, currents, statuses, baseDir, unitVars, proc, budget>>

AddLock(t) ==
    /\ Running /\ pc[t] = "add_lock"
    /\ Lock(args[t].binary, t)
    /\ SetLocal(t, [loc[t] EXCEPT !.pre = lib[args[t].binary]])
    /\ Goto(t, "add_current")
    /\ UNCHANGED <<lib, stagingExists, staging, args, last, callers, releases, currents, statuses, baseDir, unitVars, proc, budget>>

\* an add that does not compare the target with the running version
AddCheckCurrentSkipped(t) ==
    /\ Running /\ pc[t] = "add_current"
    /\ Goto(t, "add_available")
    /\ UNCHANGED <<lib, stagingExists, staging, lock, args, loc, last, callers, releases, currents, statuses, baseDir, unitVars, proc, budget>>

\* an AddToLibrary that declines a target older than the running version
AddCheckCurrentMonotonic(t) ==
    /\ Running /\ pc[t] = "add_current"
    /\ IF \/ args[t].cur = versionFromTarget(args[t].binary, args[t].target)
          \/ /\ NewVersion(args[t].cur).ok
             /\ VersionLess(versionFromTarget(args[t].binary, args[t].target), args[t].cur)
       THEN Goto(t, "add_unlock")
       ELSE Goto(t, "add_available")
    /\ UNCHANGED <<lib, stagingExists, staging, lock, args, loc, last, callers, releases, currents, statuses, baseDir, unitVars, proc, budget>>

AddCheckCurrent(t) ==
    /\ Running /\ pc[t] = "add_current"
    /\ IF args[t].cur = versionFromTarget(args[t].binary, args[t].target)
       THEN Goto(t, "add_unlock")
       ELSE Goto(t, "add_available")
    /\ UNCHANGED <<lib, stagingExists, staging, lock, args, loc, last, callers, releases, currents, statuses, baseDir, unitVars, proc, budget>>

\* an early return that leaves the lock held
AddCheckAvailableNoUnlock(t) ==
    /\ Running /\ pc[t] = "add_available"
    /\ IF Available(args[t].binary, args[t].target)
       THEN Return(t)
       ELSE Goto(t, "add_download") /\ UNCHANGED <<args, loc, last>>
    /\ UNCHANGED <<lib, stagingExists, staging, lock, callers, releases, currents, statuses, baseDir, unitVars, proc, budget>>

\* an add that does not look for the target in the library
AddCheckAvailableAlwaysDownload(t) ==
    /\ Running /\ pc[t] = "add_available"
    /\ Goto(t, "add_download")
    /\ UNCHANGED <<lib, stagingExists, staging, lock, args, loc, last, callers, releases, currents, statuses, baseDir, unitVars, proc, budget>>

AddCheckAvailable(t) ==
    /\ Running /\ pc[t] = "add_available"
    /\ IF Available(args[t].binary, args[t].target)
       THEN Goto(t, "add_unlock")
       ELSE Goto(t, "add_download")
    /\ UNCHANGED <<lib, stagingExists, staging, lock, args, loc, last, callers, releases, currents, statuses, baseDir, unitVars, proc, budget>>

\* a download that streams into the staged file before it is verified
AddDownloadToFile(t) ==
    /\ Running /\ pc[t] = "add_download"
    /\ \E response \in LimitedBodies(args[t].meta.length) :
          LET fileBuffer == response.buf
              actualTargetMeta ==
                  GenerateTargetFileMeta(fileBuffer, DOMAIN args[t].meta.hashes)
          IN  /\ staging' = Put(staging, args[t].target, FileEntry(fileBuffer))
              /\ IF TargetFileMetaEqual(actualTargetMeta, args[t].meta)
                 THEN /\ SetLocal(t, [loc[t] EXCEPT !.buf = fileBuffer, !.fetched = TRUE])
                      /\ Goto(t, "add_create")
                 ELSE /\ SetLocal(t, [loc[t] EXCEPT !.buf = fileBuffer, !.fetched = TRUE,
                                                   !.err = "verify"])
                      /\ Goto(t, "add_tidy_staged")
    /\ UNCHANGED <<lib, stagingExists, lock, args, last, callers, releases, currents, statuses, baseDir, unitVars, proc, budget>>

\* stageAndVerifyUpdate: the request, the read of the limited body into
\* fileBuffer, and the comparison with the local metadata.  mirrorClient.Get
\* returns an error when no response arrives; the status code of a response
\* is not looked at.  That the response ran past the limit is noted when
\* calls are recorded.
AddDownload(t) ==
    /\ Running /\ pc[t] = "add_download"
    /\ \/ Fail(t, "add_tidy_staged", "download")
       \/ Fail(t, "add_tidy_staged", "read")
       \/ \E response \in LimitedBodies(args[t].meta.length), status \in statuses :
             LET fileBuffer == response.buf
                 read == [response EXCEPT !.truncated = @ /\ last # Unrecorded]
                 actualTargetMeta ==
                     GenerateTargetFileMeta(fileBuffer, DOMAIN args[t].meta.hashes)
             IN  IF TargetFileMetaEqual(actualTargetMeta, args[t].meta)
                 THEN /\ SetLocal(t, [loc[t] EXCEPT !.buf = fileBuffer, !.fetched = TRUE,
                                                   !.truncated = read.truncated,
                                                   !.status = status])
                      /\ Goto(t, "add_create")
                 ELSE /\ SetLocal(t, [loc[t] EXCEPT !.buf = fileBuffer, !.fetched = TRUE,
                                                   !.truncated = read.truncated,
                                                   !.status = status,
                                                   !.err = "verify"])
                      /\ Goto(t, "add_tidy_staged")
    /\ UNCHANGED <<lib, stagingExists, staging, lock, args, last, callers, releases, currents, statuses, baseDir, unitVars, proc, budget>>

\* stageAndVerifyUpdate: os.Create(stagedUpdatePath)
AddCreate(t) ==
    /\ Running /\ pc[t] = "add_create"
    /\ \/ /\ stagingExists
          /\ staging' = Put(staging, args[t].target, FileEntry(<<>>))
          /\ Goto(t, "add_write") /\ UNCHANGED loc
       \/ /\ Fail(t, "add_tidy_staged", "create")
          /\ UNCHANGED staging
    /\ UNCHANGED <<lib, stagingExists, lock, args, last, callers, releases, currents, statuses, baseDir, unitVars, proc, budget>>

\* stageAndVerifyUpdate: io.Copy(out, &fileBuffer) and out.Close().  The
\* bytes go to the open file, which may have been unlinked meanwhile.
AddWrite(t) ==
    /\ Running /\ pc[t] = "add_write"
    /\ \/ /\ staging' = IF args[t].target \in DOMAIN staging
                         THEN Put(staging, args[t].target, FileEntry(loc[t].buf))
                         ELSE staging
          /\ Goto(t, "add_mkdir") /\ UNCHANGED loc
       \/ /\ Fail(t, "add_tidy_staged", "write")
          /\ UNCHANGED staging
    /\ UNCHANGED <<lib, stagingExists, lock, args, last, callers, releases, currents, statuses, baseDir, unitVars, proc, budget>>

\* moveVerifiedUpdate: os.MkdirAll(stagedVersionedDirectory), which also
\* makes the staging directory when it is gone
AddMkdir(t) ==
    /\ Running /\ pc[t] = "add_mkdir"
    /\ LET targetVersion == versionFromTarget(args[t].binary, args[t].target)
       IN  \/ /\ targetVersion \in DOMAIN staging => staging[targetVersion].kind = "dir"
              /\ stagingExists' = TRUE
              /\ staging' = IF targetVersion \in DOMAIN staging
                             THEN staging
                             ELSE Put(staging, targetVersion, DirEntry(EmptyDir))
              /\ Goto(t, "add_untar") /\ UNCHANGED loc
           \/ /\ Fail(t, "add_tidy_staged", "mkdir")
              /\ UNCHANGED <<stagingExists, staging>>
    /\ UNCHANGED <<lib, lock, args, last, callers, releases, currents, statuses, baseDir, unitVars, proc, budget>>

\* moveVerifiedUpdate: fsutil.UntarBundle of the staged archive into the
\* staged version directory
AddUntar(t) ==
    /\ Running /\ pc[t] = "add_untar"
    /\ LET binary        == args[t].binary
           stagedUpdate  == args[t].target
           targetVersion == versionFromTarget(binary, args[t].target)
       IN  \/ /\ stagedUpdate \in DOMAIN staging
              /\ ArchiveKind(staging[stagedUpdate].bytes) # "corrupt"
              /\ targetVersion \in DOMAIN staging
              /\ staging' = Put(staging, targetVersion,
                                DirEntry([staging[targetVersion].dir EXCEPT
                                    ![binary] = ArchiveKind(staging[stagedUpdate].bytes)]))
              /\ Goto(t, "add_chmod") /\ UNCHANGED loc
           \/ /\ Fail(t, "add_rmstaged", "untar")
              /\ UNCHANGED staging
    /\ UNCHANGED <<lib, stagingExists, lock, args, last, callers, releases, currents, statuses, baseDir, unitVars, proc, budget>>

\* moveVerifiedUpdate: os.Chmod(executable, 0755)
AddChmod(t) ==
    /\ Running /\ pc[t] = "add_chmod"
    /\ LET binary        == args[t].binary
           targetVersion == versionFromTarget(binary, args[t].target)
       IN  \/ /\ targetVersion \in DOMAIN staging
              /\ staging[targetVersion].dir[binary] # "none"
              /\ staging' = Put(staging, targetVersion,
                                DirEntry([staging[targetVersion].dir EXCEPT
                                    ![binary] = Chmod(@)]))
              /\ Goto(t, "add_probe") /\ UNCHANGED loc
           \/ /\ Fail(t, "add_rmstaged", "chmod")
              /\ UNCHANGED staging
    /\ UNCHANGED <<lib, stagingExists, lock, args, last, callers, releases, currents, statuses, baseDir, unitVars, proc, budget>>

\* an add that does not run the staged executable
AddProbeSkipped(t) ==
    /\ Running /\ pc[t] = "add_probe"
    /\ Goto(t, "add_rename") /\ SetLocal(t, [loc[t] EXCEPT !.probed = TRUE])
    /\ UNCHANGED <<lib, stagingExists, staging, lock, args, last, callers, releases, currents, statuses, baseDir, unitVars, proc, budget>>

\* moveVerifiedUpdate: CheckExecutable on the staged executable
AddProbe(t) ==
    /\ Running /\ pc[t] = "add_probe"
    /\ LET binary        == args[t].binary
           targetVersion == versionFromTarget(binary, args[t].target)
       IN  IF /\ targetVersion \in DOMAIN staging
              /\ CheckExecutable(staging[targetVersion].dir, binary)
           THEN Goto(t, "add_rename") /\ SetLocal(t, [loc[t] EXCEPT !.probed = TRUE])
           ELSE Fail(t, "add_rmstaged", "probe")
    /\ UNCHANGED <<lib, stagingExists, staging, lock, args, last, callers, releases, currents, statuses, baseDir, unitVars, proc, budget>>

\* a rename that replaces whatever is at the destination
AddRenameOverwrites(t) ==
    /\ Running /\ pc[t] = "add_rename"
    /\ LET binary        == args[t].binary
           targetVersion == versionFromTarget(binary, args[t].target)
       IN  \/ /\ targetVersion \in DOMAIN staging
              /\ lib' = [lib EXCEPT ![binary] =
                            Put(lib[binary], targetVersion, staging[targetVersion].dir)]
              /\ staging' = Remove(staging, {targetVersion})
              /\ Goto(t, "add_rmstaged") /\ UNCHANGED loc
           \/ /\ Fail(t, "add_rmstaged", "rename")
              /\ UNCHANGED <<lib, staging>>
    /\ UNCHANGED <<stagingExists, lock, args, last, callers, releases, currents, statuses, baseDir, unitVars, proc, budget>>

\* moveVerifiedUpdate: os.Rename(stagedVersionedDirectory, newUpdateDirectory);
\* it fails when the source is gone or the destination is a directory
\* that is not empty
AddRename(t) ==
    /\ Running /\ pc[t] = "add_rename"
    /\ LET binary        == args[t].binary
           targetVersion == versionFromTarget(binary, args[t].target)
       IN  \/ /\ targetVersion \in DOMAIN staging
              /\ targetVersion \in DOMAIN lib[binary] => lib[binary][targetVersion] = EmptyDir
              /\ lib' = [lib EXCEPT ![binary] =
                            Put(lib[binary], targetVersion, staging[targetVersion].dir)]
              /\ staging' = Remove(staging, {targetVersion})
              /\ Goto(t, "add_rmstaged") /\ UNCHANGED loc
           \/ /\ Fail(t, "add_rmstaged", "rename")
              /\ UNCHANGED <<lib, staging>>
    /\ UNCHANGED <<stagingExists, lock, args, last, callers, releases, currents, statuses, baseDir, unitVars, proc, budget>>

\* moveVerifiedUpdate, deferred: os.RemoveAll(stagedVersionedDirectory)
AddRemoveStaged(t) ==
    /\ Running /\ pc[t] = "add_rmstaged"
    /\ staging' = Remove(staging, {versionFromTarget(args[t].binary, args[t].target)})
    /\ Goto(t, "add_tidy_staged")
    /\ UNCHANGED <<lib, stagingExists, lock, args, loc, last, callers, releases, currents, statuses, baseDir, unitVars, proc, budget>>

\* an add that leaves the staged archive where it is
AddTidyStagedSkipped(t) ==
    /\ Running /\ pc[t] = "add_tidy_staged"
    /\ Goto(t, "add_unlock")
    /\ UNCHANGED <<lib, stagingExists, staging, lock, args, loc, last, callers, releases, currents, statuses, baseDir, unitVars, proc, budget>>

\* AddToLibrary, deferred: tidyStagedUpdates
AddTidyStaged(t) ==
    /\ Running /\ pc[t] = "add_tidy_staged"
    /\ tidyStagedUpdates
    /\ Goto(t, "add_unlock")
    /\ UNCHANGED <<lib, stagingExists, lock, args, loc, last, callers, releases, currents, statuses, baseDir, unitVars, proc, budget>>

\* AddToLibrary, deferred: the unlock, and the return
AddUnlock(t) ==
    /\ Running /\ pc[t] = "add_unlock"
    /\ Unlock(args[t].binary)
    /\ Return(t)
    /\ UNCHANGED <<lib, stagingExists, staging, callers, releases, currents, statuses, baseDir, unitVars, proc, budget>>

----------------------------------------------------------------------------
(* TidyLibrary *)

numberOfVersionsToKeep == 3

\* filepath.Join(baseUpdateDirectory, string(binary))
updatesDirectory(binary, baseUpdateDirectory) == baseUpdateDirectory \o "/" \o binary

\* filepath.Match: a pattern is malformed when it opens a character class
\* with "[" that no later "]" closes
ErrBadPattern(pattern) ==
    LET i == IndexByte(pattern, "[")
    IN  i > 0 /\ IndexByte(SubSeq(pattern, i + 1, Len(pattern)), "]") = 0

\* filepath.Glob(<base>/<binary>/*): the entries of the directory, or
\* ErrBadPattern, its only error
Glob(binary) ==
    IF ErrBadPattern(updatesDirectory(binary, baseDir) \o "/*")
    THEN [matches |-> {}, err |-> "glob"]
    ELSE [matches |-> DOMAIN lib[binary], err |-> ""]

\* a scan that takes every name that parses for a valid version
sortedVersionsInLibraryNoProbe(binary) ==
    LET rawVersionsInLibrary == Glob(binary)
        valid == {n \in rawVersionsInLibrary.matches : NewVersion(n).ok}
    IN  IF rawVersionsInLibrary.err # ""
        THEN [versions |-> <<>>, invalid |-> {}, err |-> rawVersionsInLibrary.err]
        ELSE [versions |-> SortVersions(valid),
              invalid |-> rawVersionsInLibrary.matches \ valid, err |-> ""]

\* a scan that returns the valid versions newest first
sortedVersionsInLibraryDescending(binary) ==
    LET rawVersionsInLibrary == Glob(binary)
        valid == {n \in rawVersionsInLibrary.matches :
                    NewVersion(n).ok /\ CheckExecutable(lib[binary][n], binary)}
        ascending == SortVersions(valid)
    IN  IF rawVersionsInLibrary.err # ""
        THEN [versions |-> <<>>, invalid |-> {}, err |-> rawVersionsInLibrary.err]
        ELSE [versions |-> [i \in 1..Len(ascending) |-> ascending[Len(ascending) + 1 - i]],
              invalid |-> rawVersionsInLibrary.matches \ valid, err |-> ""]

\* sortedVersionsInLibrary: the valid versions in ascending order and the
\* entries that do not parse or whose executable fails; an error, and
\* nothing else, when the glob fails
sortedVersionsInLibrary(binary) ==
    LET rawVersionsInLibrary == Glob(binary)
        valid == {n \in rawVersionsInLibrary.matches :
                    NewVersion(n).ok /\ CheckExecutable(lib[binary][n], binary)}
    IN  IF rawVersionsInLibrary.err # ""
        THEN [versions |-> <<>>, invalid |-> {}, err |-> rawVersionsInLibrary.err]
        ELSE [versions |-> SortVersions(valid),
              invalid |-> rawVersionsInLibrary.matches \ valid, err |-> ""]

\* a loop whose test of the number of versions kept is the wrong way round
RECURSIVE VersionsToRemoveFlipped(_, _, _, _)
VersionsToRemoveFlipped(versionsInLibrary, i, nonCurrentlyRunningVersionsKept, currentRunningVersion) ==
    IF i = 0 THEN {}
    ELSE IF versionsInLibrary[i] = currentRunningVersion
    THEN VersionsToRemoveFlipped(versionsInLibrary, i - 1,
                                 nonCurrentlyRunningVersionsKept, currentRunningVersion)
    ELSE IF nonCurrentlyRunningVersionsKept < numberOfVersionsToKeep - 1
    THEN {versionsInLibrary[i]} \cup
         VersionsToRemoveFlipped(versionsInLibrary, i - 1,
                                 nonCurrentlyRunningVersionsKept + 1, currentRunningVersion)
    ELSE VersionsToRemoveFlipped(versionsInLibrary, i - 1,
                                 nonCurrentlyRunningVersionsKept, currentRunningVersion)

\* a loop that does not set the running version aside
RECURSIVE VersionsToRemoveAnyVersion(_, _, _, _)
VersionsToRemoveAnyVersion(versionsInLibrary, i, nonCurrentlyRunningVersionsKept, currentRunningVersion) ==
    IF i = 0 THEN {}
    ELSE IF nonCurrentlyRunningVersionsKept >= numberOfVersionsToKeep - 1
    THEN {versionsInLibrary[i]} \cup
         VersionsToRemoveAnyVersion(versionsInLibrary, i - 1,
                                    nonCurrentlyRunningVersionsKept, currentRunningVersion)
    ELSE VersionsToRemoveAnyVersion(versionsInLibrary, i - 1,
                                    nonCurrentlyRunningVersionsKept + 1, currentRunningVersion)

\* a loop that keeps one version more
RECURSIVE VersionsToRemoveOffByOne(_, _, _, _)
VersionsToRemoveOffByOne(versionsInLibrary, i, nonCurrentlyRunningVersionsKept, currentRunningVersion) ==
    IF i = 0 THEN {}
    ELSE IF versionsInLibrary[i] = currentRunningVersion
    THEN VersionsToRemoveOffByOne(versionsInLibrary, i - 1,
                                  nonCurrentlyRunningVersionsKept, currentRunningVersion)
    ELSE IF nonCurrentlyRunningVersionsKept >= numberOfVersionsToKeep
    THEN {versionsInLibrary[i]} \cup
         VersionsToRemoveOffByOne(versionsInLibrary, i - 1,
                                  nonCurrentlyRunningVersionsKept, currentRunningVersion)
    ELSE VersionsToRemoveOffByOne(versionsInLibrary, i - 1,
                                  nonCurrentlyRunningVersionsKept + 1, currentRunningVersion)

\* a loop that stops at the first version it removes
RECURSIVE VersionsToRemoveBreak(_, _, _, _)
VersionsToRemoveBreak(versionsInLibrary, i, nonCurrentlyRunningVersionsKept, currentRunningVersion) ==
    IF i = 0 THEN {}
    ELSE IF versionsInLibrary[i] = currentRunningVersion
    THEN VersionsToRemoveBreak(versionsInLibrary, i - 1,
                               nonCurrentlyRunningVersionsKept, currentRunningVersion)
    ELSE IF nonCurrentlyRunningVersionsKept >= numberOfVersionsToKeep - 1
    THEN {versionsInLibrary[i]}
    ELSE VersionsToRemoveBreak(versionsInLibrary, i - 1,
                               nonCurrentlyRunningVersionsKept + 1, currentRunningVersion)

\* tidyUpdateLibrary: the versions its loop removes, walking from index i
\* down with the given number of versions already kept
RECURSIVE VersionsToRemove(_, _, _, _)
VersionsToRemove(versionsInLibrary, i, nonCurrentlyRunningVersionsKept, currentRunningVersion) ==
    IF i = 0 THEN {}
    ELSE IF versionsInLibrary[i] = currentRunningVersion
    THEN VersionsToRemove(versionsInLibrary, i - 1,
                          nonCurrentlyRunningVersionsKept, currentRunningVersion)
    ELSE IF nonCurrentlyRunningVersionsKept >= numberOfVersionsToKeep - 1
    THEN {versionsInLibrary[i]} \cup
         VersionsToRemove(versionsInLibrary, i - 1,
                          nonCurrentlyRunningVersionsKept, currentRunningVersion)
    ELSE VersionsToRemove(versionsInLibrary, i - 1,
                          nonCurrentlyRunningVersionsKept + 1, currentRunningVersion)

TidyLock(t) ==
    /\ Running /\ pc[t] = "tidy_lock"
    /\ Lock(args[t].binary, t)
    /\ SetLocal(t, [loc[t] EXCEPT !.pre = lib[args[t].binary]])
    /\ Goto(t, "tidy_staged")
    /\ UNCHANGED <<lib, stagingExists, staging, args, last, callers, releases, currents, statuses, baseDir, unitVars, proc, budget>>

\* a tidyStagedUpdates that takes the lock of the binary itself
TidyStagedLocks(t) ==
    /\ Running /\ pc[t] = "tidy_staged"
    /\ Goto(t, "tidy_lock")
    /\ UNCHANGED <<lib, stagingExists, staging, lock, args, loc, last, callers, releases, currents, statuses, baseDir, unitVars, proc, budget>>

\* TidyLibrary: tidyStagedUpdates
TidyStaged(t) ==
    /\ Running /\ pc[t] = "tidy_staged"
    /\ tidyStagedUpdates
    /\ Goto(t, "tidy_scan")
    /\ UNCHANGED <<lib, stagingExists, lock, args, loc, last, callers, releases, currents, statuses, baseDir, unitVars, proc, budget>>

\* a tidyUpdateLibrary that scans and prunes whatever the current version
TidyScanNoCheck(t) ==
    /\ Running /\ pc[t] = "tidy_scan"
    /\ LET scan == sortedVersionsInLibrary(args[t].binary)
       IN  IF scan.err # ""
           THEN Fail(t, "tidy_unlock", scan.err)
           ELSE /\ SetLocal(t, [loc[t] EXCEPT !.versions = scan.versions,
                                              !.invalid = scan.invalid])
                /\ Goto(t, "tidy_invalid")
    /\ UNCHANGED <<lib, stagingExists, staging, lock, args, last, callers, releases, currents, statuses, baseDir, unitVars, proc, budget>>

\* tidyUpdateLibrary: the check of currentRunningVersion and the scan,
\* whose error is logged before the return
TidyScan(t) ==
    /\ Running /\ pc[t] = "tidy_scan"
    /\ IF args[t].cur = ""
       THEN Goto(t, "tidy_unlock") /\ UNCHANGED loc
       ELSE LET scan == sortedVersionsInLibrary(args[t].binary)
            IN  IF scan.err # ""
                THEN Fail(t, "tidy_unlock", scan.err)
                ELSE /\ SetLocal(t, [loc[t] EXCEPT !.versions = scan.versions,
                                                   !.invalid = scan.invalid])
                     /\ Goto(t, "tidy_invalid")
    /\ UNCHANGED <<lib, stagingExists, staging, lock, args, last, callers, releases, currents, statuses, baseDir, unitVars, proc, budget>>

\* tidyUpdateLibrary: removeUpdate of every invalid version
TidyRemoveInvalid(t) ==
    /\ Running /\ pc[t] = "tidy_invalid"
    /\ lib' = [lib EXCEPT ![args[t].binary] = Remove(@, loc[t].invalid)]
    /\ SetLocal(t, [loc[t] EXCEPT !.invalid = {}])
    /\ Goto(t, "tidy_prune")
    /\ UNCHANGED <<stagingExists, staging, lock, args, last, callers, releases, currents, statuses, baseDir, unitVars, proc, budget>>

\* tidyUpdateLibrary: the loop over the valid versions
TidyPrune(t) ==
    /\ Running /\ pc[t] = "tidy_prune"
    /\ LET versionsInLibrary == loc[t].versions
       IN  IF Len(versionsInLibrary) <= numberOfVersionsToKeep
           THEN UNCHANGED lib
           ELSE lib' = [lib EXCEPT ![args[t].binary] =
                           Remove(@, VersionsToRemove(versionsInLibrary,
                                        Len(versionsInLibrary), 0, args[t].cur))]
    /\ SetLocal(t, [loc[t] EXCEPT !.versions = <<>>])
    /\ Goto(t, "tidy_unlock")
    /\ UNCHANGED <<stagingExists, staging, lock, args, last, callers, releases, currents, statuses, baseDir, unitVars, proc, budget>>

TidyUnlock(t) ==
    /\ Running /\ pc[t] = "tidy_unlock"
    /\ Unlock(args[t].binary)
    /\ Return(t)
    /\ UNCHANGED <<lib, stagingExists, staging, callers, releases, currents, statuses, baseDir, unitVars, proc, budget>>

----------------------------------------------------------------------------
(* Close *)

\* Close taking the lock of the first binary only
CloseLockFirstOnly(t) ==
    /\ Running /\ pc[t] = "close_lock"
    /\ Lock(binaries[loc[t].idx], t)
    /\ Goto(t, "close_remove") /\ UNCHANGED loc
    /\ UNCHANGED <<lib, stagingExists, staging, args, last, callers, releases, currents, statuses, baseDir, unitVars, proc, budget>>

\* the loop over binaries: Lock, and the unlock deferred
CloseLock(t) ==
    /\ Running /\ pc[t] = "close_lock"
    /\ Lock(binaries[loc[t].idx], t)
    /\ IF loc[t].idx < Len(binaries)
       THEN SetLocal(t, [loc[t] EXCEPT !.idx = @ + 1]) /\ UNCHANGED pc
       ELSE Goto(t, "close_remove") /\ UNCHANGED loc
    /\ UNCHANGED <<lib, stagingExists, staging, args, last, callers, releases, currents, statuses, baseDir, unitVars, proc, budget>>

\* os.RemoveAll(ulm.stagingDir)
CloseRemove(t) ==
    /\ Running /\ pc[t] = "close_remove"
    /\ \/ /\ stagingExists' = FALSE
          /\ staging' = NoEntries
          /\ Goto(t, "close_unlock") /\ UNCHANGED loc
       \/ /\ Fail(t, "close_unlock", "remove")
          /\ UNCHANGED <<stagingExists, staging>>
    /\ UNCHANGED <<lib, lock, args, last, callers, releases, currents, statuses, baseDir, unitVars, proc, budget>>

\* a Close whose return gives back the lock taken last and no other
CloseUnlockLastOnly(t) ==
    /\ Running /\ pc[t] = "close_unlock"
    /\ Unlock(binaries[loc[t].idx])
    /\ Return(t)
    /\ UNCHANGED <<lib, stagingExists, staging, callers, releases, currents, statuses, baseDir, unitVars, proc, budget>>

\* the deferred unlocks, last deferred first, and the return
CloseUnlock(t) ==
    /\ Running /\ pc[t] = "close_unlock"
    /\ Unlock(binaries[loc[t].idx])
    /\ IF loc[t].idx > 1
       THEN SetLocal(t, [loc[t] EXCEPT !.idx = @ - 1]) /\ UNCHANGED <<pc, args, last>>
       ELSE Return(t)
    /\ UNCHANGED <<lib, stagingExists, staging, callers, releases, currents, statuses, baseDir, unitVars, proc, budget>>

----------------------------------------------------------------------------
(* Available, called on its own *)

\* Available takes no lock: CheckExecutable of the executable of the target
\* version under <base>/<binary>/, at whatever point the other callers are
CallAvailable(t) ==
    /\ Running /\ pc[t] = "idle" /\ t \in callers /\ budget > 0
    /\ budget' = budget - 1
    /\ \E binary \in Binaries, version \in DOMAIN releases :
         LET targetFilename == TargetName(binary, version)
         IN  /\ args' = [args EXCEPT ![t] =
                            [NoArgs EXCEPT !.op = "available", !.binary = binary,
                                           !.target = targetFilename]]
             /\ SetLocal(t, [NoLocals EXCEPT !.probed = Available(binary, targetFilename)])
    /\ Goto(t, "available_return")
    /\ UNCHANGED <<lib, stagingExists, staging, lock, last, callers, releases, currents, statuses, baseDir, unitVars, proc>>

\* the return of Available; its result is loc[t].probed
AvailableReturn(t) ==
    /\ Running /\ pc[t] = "available_return"
    /\ Return(t)
    /\ UNCHANGED <<lib, stagingExists, staging, lock, callers, releases, currents, statuses, baseDir, unitVars, proc, budget>>

----------------------------------------------------------------------------
(* The context of the caller *)

\* the caller of an AddToLibrary cancels its context while the call runs the
\* probe, the one step of the call that is given a context; the caller
\* makes no call after that.  AddToLibrary takes no context, and the probe
\* is given context.TODO().
CancelContext(t) ==
    /\ Running /\ pc[t] = "add_probe"
    /\ proc.ctx = "live" /\ budget > 0
    /\ proc' = [proc EXCEPT !.ctx = "cancelled"]
    /\ budget' = 0
    /\ UNCHANGED <<lib, stagingExists, staging, lock, pc, args, loc, last, callers, releases, currents, statuses, baseDir, unitVars>>

----------------------------------------------------------------------------
(* UpdateFinalizer *)

\* autoupdate.FindNewestSelf: the newest version installed for the launcher
\* whose executable passes the probe; an error when there is none
FindNewestSelf ==
    LET installed == sortedVersionsInLibrary("launcher").versions
    IN  IF Len(installed) = 0
        THEN [binaryPath |-> "", err |-> "find"]
        ELSE [binaryPath |-> installed[Len(installed)], err |-> ""]

\* the finalizer is the last call of the process: it replaces the process,
\* or returns the error on which the process exits
CallFinalize(t) ==
    /\ Running /\ pc[t] = "idle" /\ t \in callers /\ budget > 0
    /\ budget' = 0
    /\ args' = [args EXCEPT ![t] = [NoArgs EXCEPT !.op = "finalize"]]
    /\ Goto(t, "fin_shutdown")
    /\ UNCHANGED <<lib, stagingExists, staging, lock, loc, last, callers, releases, currents, statuses, baseDir, unitVars, proc>>

\* a finalizer that returns the error of the shutdown hook
FinShutdownAborts(t) ==
    /\ Running /\ pc[t] = "fin_shutdown"
    /\ \/ /\ proc' = [proc EXCEPT !.hook = "ok"]
          /\ Goto(t, "fin_find")
          /\ UNCHANGED <<args, loc, last>>
       \/ /\ proc' = [proc EXCEPT !.hook = "failed", !.err = "shutdown"]
          /\ Return(t)
    /\ UNCHANGED <<lib, stagingExists, staging, lock, callers, releases, currents, statuses, baseDir, unitVars, budget>>

\* shutdownOsquery(); its error is logged
FinShutdown(t) ==
    /\ Running /\ pc[t] = "fin_shutdown"
    /\ \E result \in {"ok", "failed"} : proc' = [proc EXCEPT !.hook = result]
    /\ Goto(t, "fin_find")
    /\ UNCHANGED <<lib, stagingExists, staging, lock, args, loc, last, callers, releases, currents, statuses, baseDir, unitVars, budget>>

\* autoupdate.FindNewestSelf(...); its error is returned
FinFind(t) ==
    /\ Running /\ pc[t] = "fin_find"
    /\ LET found == FindNewestSelf
       IN  IF found.err # ""
           THEN /\ proc' = [proc EXCEPT !.err = "finding newest"]
                /\ Return(t)
           ELSE /\ proc' = [proc EXCEPT !.path = found.binaryPath]
                /\ Goto(t, "fin_exec")
                /\ UNCHANGED <<args, loc, last>>
    /\ UNCHANGED <<lib, stagingExists, staging, lock, callers, releases, currents, statuses, baseDir, unitVars, budget>>

\* syscall.Exec(binaryPath, os.Args, os.Environ()): the process image is
\* replaced and nothing of the process runs on, or the error is returned
FinExec(t) ==
    /\ Running /\ pc[t] = "fin_exec"
    /\ \/ /\ proc' = [proc EXCEPT !.image = proc.path, !.argv = "os.Args",
                                  !.env = "os.Environ"]
          /\ Goto(t, "replaced")
          /\ UNCHANGED <<args, loc, last>>
       \/ /\ proc' = [proc EXCEPT !.err = "exec updated launcher"]
          /\ Return(t)
    /\ UNCHANGED <<lib, stagingExists, staging, lock, callers, releases, currents, statuses, baseDir, unitVars, budget>>

----------------------------------------------------------------------------
(* The osquery-extension process: main *)

\* the variables of the library manager and of the launcher process
libraryVars ==
    <<lib, stagingExists, staging, lock, pc, args, loc, last, callers, releases, currents,
      statuses, proc, budget, baseDir>>

\* logutil.Fatal: the process exits at once, and no deferred call runs
Fatal == [ext EXCEPT !.pc = "exited", !.exit = "fatal"]

\* flag.Parse, and os.Exit(0) after the version is printed
MainFlags ==
    /\ ext.pc = "flags"
    /\ ext' = IF ext.flVersion
              THEN [ext EXCEPT !.pc = "exited", !.exit = "0"]
              ELSE [ext EXCEPT !.pc = "client"]
    /\ UNCHANGED <<libraryVars, win, rpc>>

\* osquery.NewClient
MainNewClient ==
    /\ ext.pc = "client"
    /\ ext' \in {[ext EXCEPT !.pc = "dial"], Fatal}
    /\ UNCHANGED <<libraryVars, win, rpc>>

\* service.DialGRPC
MainDialGRPC ==
    /\ ext.pc = "dial"
    /\ ext' \in {[ext EXCEPT !.pc = "open"], Fatal}
    /\ UNCHANGED <<libraryVars, win, rpc>>

\* bbolt.Open, and defer db.Close()
MainOpenDB ==
    /\ ext.pc = "open"
    /\ ext' \in {[ext EXCEPT !.pc = "stores", !.db = "open",
                             !.deferred = Append(@, "db.Close")], Fatal}
    /\ UNCHANGED <<libraryVars, win, rpc>>

\* agentbbolt.MakeStores
MainMakeStores ==
    /\ ext.pc = "stores"
    /\ ext' \in {[ext EXCEPT !.pc = "extension"], Fatal}
    /\ UNCHANGED <<libraryVars, win, rpc>>

\* grpcext.NewExtension
MainNewExtension ==
    /\ ext.pc = "extension"
    /\ ext' \in {[ext EXCEPT !.pc = "server"], Fatal}
    /\ UNCHANGED <<libraryVars, win, rpc>>

\* osquery.NewExtensionManagerServer, and the plugins
MainNewServer ==
    /\ ext.pc = "server"
    /\ ext' \in {[ext EXCEPT !.pc = "enroll"], Fatal}
    /\ UNCHANGED <<libraryVars, win, rpc>>

\* ext.Enroll: an error and an invalid secret are fatal
MainEnroll ==
    /\ ext.pc = "enroll"
    /\ \E outcome \in {"enrolled", "error", "invalid"} :
         ext' = IF outcome = "enrolled"
                THEN [ext EXCEPT !.pc = "start", !.enrolled = TRUE]
                ELSE Fatal
    /\ UNCHANGED <<libraryVars, win, rpc>>

\* ext.Start(); defer ext.Shutdown()
MainStart ==
    /\ ext.pc = "start"
    /\ ext' = [ext EXCEPT !.pc = "start_again", !.starts = @ + 1,
                          !.deferred = Append(@, "ext.Shutdown")]
    /\ UNCHANGED <<libraryVars, win, rpc>>

\* ext.Start(); defer ext.Shutdown(), a second time
MainStartAgain ==
    /\ ext.pc = "start_again"
    /\ ext' = [ext EXCEPT !.pc = "run", !.starts = @ + 1,
                          !.deferred = Append(@, "ext.Shutdown")]
    /\ UNCHANGED <<libraryVars, win, rpc>>

\* server.Run(): it returns nil when the server stops, or its error is fatal
MainRun ==
    /\ ext.pc = "run"
    /\ ext' \in {[ext EXCEPT !.pc = "return"], Fatal}
    /\ UNCHANGED <<libraryVars, win, rpc>>

\* the return of main: the deferred calls, last deferred first
MainReturn ==
    /\ ext.pc = "return"
    /\ LET n == Len(ext.deferred)
       IN  ext' = IF n = 0
                  THEN [ext EXCEPT !.pc = "exited", !.exit = "return"]
                  ELSE IF ext.deferred[n] = "ext.Shutdown"
                  THEN [ext EXCEPT !.shutdowns = @ + 1,
                                   !.deferred = SubSeq(@, 1, n - 1)]
                  ELSE [ext EXCEPT !.db = "closed",
                                   !.deferred = SubSeq(@, 1, n - 1)]
    /\ UNCHANGED <<libraryVars, win, rpc>>

----------------------------------------------------------------------------
(* checkExecutablePermissions (Windows) *)

\* the paths a check is called with
Paths == {"", "launcher.exe", "launcher", "updates", "updates.exe"}

\* what os.Stat returns: a FileInfo and no error, or no FileInfo and an error
StatResults ==
    { [info |-> "file", err |-> ""], [info |-> "dir", err |-> ""],
      [info |-> "nil", err |-> "not exist"], [info |-> "nil", err |-> "access denied"] }

\* checkExecutablePermissions: the cases of the switch in their order, of
\* which the second calls IsDir on the FileInfo, nil or not
checkExecutablePermissions(potentialBinary, stat) ==
    IF potentialBinary = "" THEN [err |-> "empty string isn't executable", panic |-> FALSE]
    ELSE IF stat.err = "not exist" THEN [err |-> "No such file", panic |-> FALSE]
    ELSE IF stat.info = "nil" THEN [err |-> "", panic |-> TRUE]
    ELSE IF stat.info = "dir" THEN [err |-> "is a directory", panic |-> FALSE]
    ELSE IF stat.err # "" THEN [err |-> "statting file", panic |-> FALSE]
    ELSE IF ~HasSuffix(potentialBinary, ".exe") THEN [err |-> "not executable", panic |-> FALSE]
    ELSE [err |-> "", panic |-> FALSE]

\* a call of checkExecutablePermissions, to its return or to its panic
CheckPermissions ==
    /\ win.pc = "called"
    /\ LET result == checkExecutablePermissions(win.potentialBinary, win.stat)
       IN  win' = [win EXCEPT !.pc = IF result.panic THEN "panicked" ELSE "returned",
                              !.err = result.err]
    /\ UNCHANGED <<libraryVars, ext, rpc>>

----------------------------------------------------------------------------
(* encodeJSONRPCPublishResultsResponse *)

\* the dynamic types of the value to encode
ObjectTypes == {"publishResultsResponse", "*publishResultsResponse", "resultCollection"}

\* what json.Marshal returns: the bytes, or an error
MarshalResults == {[b |-> "json", err |-> ""], [b |-> "nil", err |-> "unsupported value"]}

\* fmt.Errorf(format ending in ": %w", err): an error also when err is nil
Errorf(msg, err) == msg \o ": " \o (IF err = "" THEN "%!w(<nil>)" ELSE err)

\* encodeJSONRPCPublishResultsResponse: the arguments of its call of
\* encodeJSONResponse; the empty string is the nil error
encodeJSONRPCPublishResultsResponse(obj, marshal) ==
    IF obj # "publishResultsResponse"
    THEN [b |-> "nil", err |-> "Asserting result to *publishResultsResponse failed"]
    ELSE [b |-> marshal.b, err |-> Errorf("marshal json response", marshal.err)]

\* a call of encodeJSONRPCPublishResultsResponse up to encodeJSONResponse
EncodeResponse ==
    /\ rpc.pc = "called"
    /\ LET handed == encodeJSONRPCPublishResultsResponse(rpc.obj, rpc.marshal)
       IN  rpc' = [rpc EXCEPT !.pc = "handed", !.b = handed.b, !.err = handed.err]
    /\ UNCHANGED <<libraryVars, ext, win>>

----------------------------------------------------------------------------
(* Specification *)

Next ==
    \E t \in Threads :
        \/ CallAdd(t) \/ CallTidy(t) \/ CallClose(t)
        \/ CallAvailable(t) \/ AvailableReturn(t) \/ CancelContext(t)
        \/ CallFinalize(t) \/ FinShutdown(t) \/ FinFind(t) \/ FinExec(t)
        \/ AddLock(t) \/ AddCheckCurrent(t) \/ AddCheckAvailable(t)
        \/ AddDownload(t) \/ AddCreate(t) \/ AddWrite(t)
        \/ AddMkdir(t) \/ AddUntar(t) \/ AddChmod(t) \/ AddProbe(t)
        \/ AddRename(t) \/ AddRemoveStaged(t)
        \/ AddTidyStaged(t) \/ AddUnlock(t)
        \/ TidyLock(t) \/ TidyStaged(t) \/ TidyScan(t)
        \/ TidyRemoveInvalid(t) \/ TidyPrune(t) \/ TidyUnlock(t)
        \/ CloseLock(t) \/ CloseRemove(t) \/ CloseUnlock(t)

Spec == Init /\ [][Next]_vars

SpecSeq == InitSeq /\ [][Next]_vars

SpecPair == InitPair /\ [][Next]_vars

SpecMirror == InitMirror /\ [][Next]_vars

\* the steps of TidyLibrary alone
NextScan ==
    \E t \in Threads :
        \/ CallTidy(t)
        \/ TidyLock(t) \/ TidyStaged(t) \/ TidyScan(t)
        \/ TidyRemoveInvalid(t) \/ TidyPrune(t) \/ TidyUnlock(t)

SpecScan == InitScan /\ [][NextScan]_vars

\* the acquisition of a lock
LockStep(t) == AddLock(t) \/ TidyLock(t) \/ CloseLock(t)

\* a step of a call of AddToLibrary, TidyLibrary or Close that waits for
\* nothing but the file system or the mirror
IOStep(t) ==
    \/ AddCheckCurrent(t) \/ AddCheckAvailable(t)
    \/ AddDownload(t) \/ AddCreate(t) \/ AddWrite(t)
    \/ AddMkdir(t) \/ AddUntar(t) \/ AddChmod(t) \/ AddProbe(t)
    \/ AddRename(t) \/ AddRemoveStaged(t)
    \/ AddTidyStaged(t) \/ AddUnlock(t)
    \/ TidyStaged(t) \/ TidyScan(t)
    \/ TidyRemoveInvalid(t) \/ TidyPrune(t) \/ TidyUnlock(t)
    \/ CloseRemove(t) \/ CloseUnlock(t)

\* the calls of the library manager and their steps
NextCalls ==
    \E t \in Threads :
        \/ CallAdd(t) \/ CallTidy(t) \/ CallClose(t)
        \/ LockStep(t)
        \/ IOStep(t)

\* every step of I/O terminates, and a caller that finds the lock free
\* again and again gets it
Fairness == \A t \in Threads : WF_vars(IOStep(t)) /\ SF_vars(LockStep(t))

SpecFair == InitFair /\ [][NextCalls]_vars /\ Fairness

\* the extension process about to run main, one call of
\* checkExecutablePermissions and one call of
\* encodeJSONRPCPublishResultsResponse, with any of their inputs; no library
\* manager is in use
InitUnits ==
    /\ stagingExists = FALSE
    /\ staging = NoEntries
    /\ lib = [b \in Binaries |-> NoEntries]
    /\ lock = [b \in Binaries |-> NoHolder]
    /\ pc = [t \in Threads |-> "idle"]
    /\ args = [t \in Threads |-> NoArgs]
    /\ loc = [t \in Threads |-> NoLocals]
    /\ proc = NoProcess
    /\ last = Unrecorded
    /\ callers = {}
    /\ releases = NoEntries
    /\ currents = {}
    /\ statuses = {}
    /\ baseDir = DefaultBaseDir
    /\ budget = 0
    /\ \E flVersion \in BOOLEAN :
         ext = [NoExtension EXCEPT !.pc = "flags", !.flVersion = flVersion]
    /\ \E potentialBinary \in Paths, stat \in StatResults :
         win = [NoCheck EXCEPT !.pc = "called", !.potentialBinary = potentialBinary,
                               !.stat = stat]
    /\ \E obj \in ObjectTypes, marshal \in MarshalResults :
         rpc = [NoEncode EXCEPT !.pc = "called", !.obj = obj, !.marshal = marshal]

NextUnits ==
    \/ MainFlags \/ MainNewClient \/ MainDialGRPC \/ MainOpenDB
    \/ MainMakeStores \/ MainNewExtension \/ MainNewServer \/ MainEnroll
    \/ MainStart \/ MainStartAgain \/ MainRun \/ MainReturn
    \/ CheckPermissions
    \/ EncodeResponse

SpecUnits == InitUnits /\ [][NextUnits]_vars

----------------------------------------------------------------------------
(* Properties *)

TargetVersion(t) == versionFromTarget(args[t].binary, args[t].target)

\* the step with which a call of t returns; its result is loc[t].err
AddReturns(t) == pc[t] = "add_unlock" /\ pc'[t] = "idle"

TidyReturns(t) == pc[t] = "tidy_unlock" /\ pc'[t] = "idle"

Returns(t) == pc[t] # "idle" /\ pc'[t] = "idle"

\* t takes the step
Steps(t) == pc'[t] # pc[t] \/ loc'[t] # loc[t]

DigestMismatch(buf, meta) == \E a \in DOMAIN meta.hashes : Digest(a, buf) # meta.hashes[a]

\* t is between taking and releasing the lock of the binary
InSection(t, binary) ==
    \/ /\ args[t].op \in {"add", "tidy"}
       /\ args[t].binary = binary
       /\ pc[t] \notin {"idle", "add_lock", "tidy_lock"}
    \/ /\ args[t].op = "close"
       /\ \/ pc[t] = "close_lock" /\ \E i \in 1..(loc[t].idx - 1) : binaries[i] = binary
          \/ pc[t] = "close_remove"
          \/ pc[t] = "close_unlock" /\ \E i \in 1..loc[t].idx : binaries[i] = binary

\* C1: when the bytes the mirror served, cut at the declared length, do not
\* match a digest of the target metadata, AddToLibrary returns an error, the
\* library of the binary is as it was when the call took the lock, and no
\* staged file of the target's name is left when the call returns.
C1_MismatchFailsCleanly ==
    [][\A t \in Threads :
          (AddReturns(t) /\ loc[t].fetched /\ DigestMismatch(loc[t].buf, args[t].meta))
          => /\ loc[t].err # ""
             /\ lib'[args[t].binary] = loc[t].pre
             /\ args[t].target \notin DOMAIN staging']_vars

C1_Witness ==
    \E t \in Threads :
        /\ pc[t] = "add_unlock" /\ loc[t].fetched
        /\ Len(loc[t].buf) = args[t].meta.length
        /\ DigestMismatch(loc[t].buf, args[t].meta)
        /\ loc[t].err = "verify"

\* C2: every version directory that appears or changes under <base> is put
\* there by the rename of an AddToLibrary whose download was verified and
\* whose probe of the staged executable succeeded before, and it is the
\* candidate that was probed: its executable passes the probe.
C2_ProbeBeforeRename ==
    [][\A b \in Binaries : \A v \in DOMAIN lib'[b] :
          (v \notin DOMAIN lib[b] \/ lib'[b][v] # lib[b][v])
          => /\ \E t \in Threads :
                   /\ pc[t] = "add_rename" /\ args[t].binary = b /\ TargetVersion(t) = v
                   /\ loc[t].fetched /\ loc[t].err = "" /\ loc[t].probed
             /\ CheckExecutable(lib'[b][v], b)]_vars

\* C3: while an AddToLibrary is in progress, and when it has failed, the
\* directory of its version under <base>/<binary>/ is absent, or complete
\* (its executable passes the probe), or the one that was there before.
C3_NeverPartial ==
    \A t \in Threads :
        (args[t].op = "add" /\ pc[t] \notin {"idle", "add_lock"})
        => LET b == args[t].binary
               v == TargetVersion(t)
           IN  v \in DOMAIN lib[b]
               => \/ CheckExecutable(lib[b][v], b)
                  \/ v \in DOMAIN loc[t].pre /\ lib[b][v] = loc[t].pre[v]

\* C4: at no instant are two calls inside their locked sections on the
\* same binary: no two adds, and no add together with a tidy.
C4_MutualExclusion ==
    \A b \in Binaries : \A t, u \in Threads :
        (InSection(t, b) /\ InSection(u, b)) => t = u

C4_Witness ==
    \E t, u \in Threads :
        /\ t # u /\ args[t].op = "add" /\ pc[t] = "add_create"
        /\ args[u].binary = args[t].binary /\ pc[u] \in {"add_lock", "tidy_lock"}

\* C5: when a call returns, on whichever path, it holds no lock.
C5_LocksReleased ==
    [][\A t \in Threads : Returns(t) => \A b \in Binaries : lock'[b] # t]_vars

C5_Witness ==
    \E t \in Threads :
        /\ pc[t] = "add_unlock" /\ loc[t].err = "rename"
        /\ lock[args[t].binary] = t

\* C6: a step of an add or tidy on one binary leaves alone the staged
\* archive and the staged version directory of an add in flight on the
\* other binary.
C6_OtherBinaryUntouched ==
    [][\A t, u \in Threads :
          (/\ t # u /\ Steps(u)
           /\ args[t].op = "add" /\ pc[t] \in {"add_write", "add_mkdir", "add_untar",
                                                "add_chmod", "add_probe", "add_rename"}
           /\ args[u].op \in {"add", "tidy"} /\ args[u].binary # args[t].binary)
          => /\ args[t].target \in DOMAIN staging
                => /\ args[t].target \in DOMAIN staging'
                   /\ staging'[args[t].target] = staging[args[t].target]
             /\ TargetVersion(t) \in DOMAIN staging
                => /\ TargetVersion(t) \in DOMAIN staging'
                   /\ staging'[TargetVersion(t)] = staging[TargetVersion(t)]]_vars

\* the valid versions of a library: the name parses and the executable works
ValidVersions(library, binary) ==
    {n \in DOMAIN library : NewVersion(n).ok /\ CheckExecutable(library[n], binary)}

\* the k most recent versions of S
MostRecent(S, k) == {v \in S : Cardinality({w \in S : VersionLess(v, w)}) < k}

\* C7, as stated: after tidy(binary, cur) the directories under
\* <base>/<binary>/ are among cur and the 3 most recent valid versions.
C7_Original ==
    [][\A t \in Threads :
          TidyReturns(t)
          => DOMAIN lib'[args[t].binary] \subseteq
                {args[t].cur} \cup MostRecent(ValidVersions(loc[t].pre, args[t].binary), 3)]_vars

\* C7, amended: the same, for a tidy with a non-empty current running version.
C7_SubsetOfRunningAndRecent ==
    [][\A t \in Threads :
          (TidyReturns(t) /\ args[t].cur # "")
          => DOMAIN lib'[args[t].binary] \subseteq
                {args[t].cur} \cup MostRecent(ValidVersions(loc[t].pre, args[t].binary), 3)]_vars

C7_Witness ==
    \E t \in Threads :
        /\ pc[t] = "tidy_unlock" /\ args[t].cur # ""
        /\ Cardinality(ValidVersions(loc[t].pre, args[t].binary)) > 3
        /\ DOMAIN loc[t].pre \ ValidVersions(loc[t].pre, args[t].binary) # {}
        /\ DOMAIN lib[args[t].binary] # DOMAIN loc[t].pre

\* C8: a directory of the current running version that exists before
\* tidy(binary, cur) exists after it.
C8_RunningVersionKept ==
    [][\A t \in Threads :
          (TidyReturns(t) /\ args[t].cur \in DOMAIN loc[t].pre)
          => args[t].cur \in DOMAIN lib'[args[t].binary]]_vars

\* C9, as stated: after tidy(binary, cur) the three most recent valid
\* versions and cur are still present, and at most four directories remain.
C9_Original ==
    [][\A t \in Threads :
          TidyReturns(t)
          => LET b == args[t].binary
             IN  /\ MostRecent(ValidVersions(loc[t].pre, b), 3) \subseteq DOMAIN lib'[b]
                 /\ args[t].cur \in DOMAIN loc[t].pre => args[t].cur \in DOMAIN lib'[b]
                 /\ Cardinality(DOMAIN lib'[b]) <= 4]_vars

\* C9, amended: after tidy(binary, cur) with a non-empty cur, the two most
\* recent valid versions other than cur are still present, so is cur when
\* it was a valid version, and at most three directories remain.
C9_KeepsRunningAndTwo ==
    [][\A t \in Threads :
          (TidyReturns(t) /\ args[t].cur # "")
          => LET b     == args[t].binary
                 valid == ValidVersions(loc[t].pre, b)
             IN  /\ MostRecent(valid \ {args[t].cur}, 2) \subseteq DOMAIN lib'[b]
                 /\ args[t].cur \in valid => args[t].cur \in DOMAIN lib'[b]
                 /\ Cardinality(DOMAIN lib'[b]) <= 3]_vars

C9_Witness ==
    \E t \in Threads :
        LET valid == ValidVersions(loc[t].pre, args[t].binary)
        IN  /\ pc[t] = "tidy_unlock" /\ args[t].cur \in valid
            /\ Cardinality(valid) > 4
            /\ args[t].cur \notin MostRecent(valid, 3)
            /\ Cardinality(DOMAIN lib[args[t].binary]) = 3

\* C10: with more than 3 valid versions and a non-empty cur, tidy leaves
\* exactly cur, when it is a valid version, and the two most recent valid
\* versions other than cur; with 3 valid versions or fewer it removes no
\* valid version.
C10_ExactRetention ==
    [][\A t \in Threads :
          TidyReturns(t)
          => LET b     == args[t].binary
                 valid == ValidVersions(loc[t].pre, b)
             IN  /\ (Cardinality(valid) > 3 /\ args[t].cur # "")
                    => DOMAIN lib'[b] =
                          ({args[t].cur} \cap valid) \cup MostRecent(valid \ {args[t].cur}, 2)
                 /\ Cardinality(valid) <= 3 => valid \subseteq DOMAIN lib'[b]]_vars

\* the library 1.0.0 .. 1.4.0 tidied with 1.2.0 running
C10_Witness ==
    \E t \in Threads :
        /\ pc[t] = "tidy_unlock" /\ args[t].cur = "1.2.0"
        /\ ValidVersions(loc[t].pre, args[t].binary) =
              {"1.0.0", "1.1.0", "1.2.0", "1.3.0", "1.4.0"}
        /\ DOMAIN lib[args[t].binary] = {"1.2.0", "1.3.0", "1.4.0"}

\* the invalid entries of a library: the name does not parse, or the
\* executable fails the probe
InvalidEntries(library, binary) == DOMAIN library \ ValidVersions(library, binary)

\* C11, as stated: after tidy(binary, cur), for every cur, no invalid entry
\* remains under <base>/<binary>/.
C11_Original ==
    [][\A t \in Threads :
          TidyReturns(t)
          => InvalidEntries(lib'[args[t].binary], args[t].binary) = {}]_vars

\* C11, amended: after tidy(binary, cur) with a non-empty cur no invalid
\* entry remains under <base>/<binary>/, and every entry that was invalid
\* when the call took the lock is gone.
C11_InvalidRemoved ==
    [][\A t \in Threads :
          (TidyReturns(t) /\ args[t].cur # "")
          => /\ InvalidEntries(lib'[args[t].binary], args[t].binary) = {}
             /\ InvalidEntries(loc[t].pre, args[t].binary) \cap DOMAIN lib'[args[t].binary] = {}]_vars

\* the library 1.0.0, not-a-version, 1.1.0-brokenexe tidied with 1.0.0 running
C11_Witness ==
    \E t \in Threads :
        /\ pc[t] = "tidy_unlock" /\ args[t].cur = "1.0.0"
        /\ DOMAIN loc[t].pre = {"1.0.0", "not-a-version", "1.1.0-brokenexe"}
        /\ InvalidEntries(loc[t].pre, args[t].binary) = {"not-a-version", "1.1.0-brokenexe"}
        /\ DOMAIN lib[args[t].binary] = {"1.0.0"}

\* the add of t repeats the call that returned last
RepeatsAdd(t) ==
    /\ args[t].op = "add" /\ last.op = "add"
    /\ last.binary = args[t].binary /\ last.cur = args[t].cur /\ last.target = args[t].target

\* C12, as stated: the second of two consecutive identical adds leaves the
\* library and staging as the first left them and returns the same result,
\* and exactly one of the two calls downloads from the mirror.
C12_Original ==
    [][\A t \in Threads :
          (AddReturns(t) /\ RepeatsAdd(t))
          => /\ lib'[args[t].binary] = loc[t].pre
             /\ staging' = NoEntries
             /\ loc[t].err = last.err
             /\ last.requested # Requested(loc[t])]_vars

\* C12, amended: when the first of two consecutive identical adds returned
\* success, the second returns success, leaves the library and staging as
\* the first left them and sends no request to the mirror.
C12_RepeatAfterSuccessIsNoOp ==
    [][\A t \in Threads :
          (AddReturns(t) /\ RepeatsAdd(t) /\ last.err = "")
          => /\ lib'[args[t].binary] = loc[t].pre
             /\ staging' = NoEntries
             /\ loc[t].err = ""
             /\ ~Requested(loc[t])]_vars

\* the first add downloaded and installed the version, the second is returning
C12_Witness ==
    \E t \in Threads :
        /\ pc[t] = "add_unlock" /\ RepeatsAdd(t)
        /\ last.err = "" /\ last.requested
        /\ TargetVersion(t) \in DOMAIN lib[args[t].binary]
        /\ args[t].cur # TargetVersion(t)
        /\ ~Requested(loc[t]) /\ loc[t].err = ""

\* the tidy of t repeats the call that returned last
RepeatsTidy(t) ==
    /\ args[t].op = "tidy" /\ last.op = "tidy"
    /\ last.binary = args[t].binary /\ last.cur = args[t].cur

\* C13: the second of two consecutive calls tidy(b, cur) removes nothing:
\* it leaves the library of b as the first call left it, and staging empty.
C13_TidyIdempotent ==
    [][\A t \in Threads :
          (TidyReturns(t) /\ RepeatsTidy(t))
          => /\ lib' = [lib EXCEPT ![args[t].binary] = loc[t].pre]
             /\ staging' = NoEntries]_vars

\* the second tidy with 1.0.0 running, after the first pruned the library
\* 1.0.0 .. 1.4.0
C13_Witness ==
    \E t \in Threads :
        /\ pc[t] = "tidy_unlock" /\ RepeatsTidy(t) /\ args[t].cur = "1.0.0"
        /\ DOMAIN loc[t].pre = {"1.0.0", "1.3.0", "1.4.0"}
        /\ lib[args[t].binary] = loc[t].pre

\* C14: an add whose current version is the version of its target takes no
\* step that changes the library or the staging directory, never reaches
\* the request to the mirror, and returns success, whether or not that
\* version is in the library.
C14_CurrentVersionNoOp ==
    [][\A t \in Threads :
          (args[t].op = "add" /\ args[t].cur = TargetVersion(t) /\ Steps(t))
          => /\ lib' = lib /\ staging' = staging /\ stagingExists' = stagingExists
             /\ pc'[t] \in {"add_current", "add_unlock", "idle"}
             /\ AddReturns(t) => (loc[t].err = "" /\ ~Requested(loc[t]))]_vars

\* such an add is returning, and the version is not in the library
C14_Witness ==
    \E t \in Threads :
        /\ pc[t] = "add_unlock" /\ args[t].cur = TargetVersion(t)
        /\ TargetVersion(t) \notin DOMAIN lib[args[t].binary]
        /\ loc[t].err = "" /\ ~Requested(loc[t])

\* the target of the add of t was available when the call took the lock
AvailableAtLock(t) ==
    /\ pc[t] # "add_lock"
    /\ TargetVersion(t) \in DOMAIN loc[t].pre
    /\ CheckExecutable(loc[t].pre[TargetVersion(t)], args[t].binary)

\* C15: an add whose target is available in the library takes no step that
\* changes the library or the staging directory, never reaches the request
\* to the mirror, and returns success.
C15_AvailableNoOp ==
    [][\A t \in Threads :
          (args[t].op = "add" /\ AvailableAtLock(t) /\ Steps(t))
          => /\ lib' = lib /\ staging' = staging /\ stagingExists' = stagingExists
             /\ pc'[t] \in {"add_available", "add_unlock", "idle"}
             /\ AddReturns(t) => (loc[t].err = "" /\ ~Requested(loc[t]))]_vars

\* such an add, for a version other than the running one, is returning
C15_Witness ==
    \E t \in Threads :
        /\ pc[t] = "add_unlock" /\ args[t].op = "add" /\ AvailableAtLock(t)
        /\ args[t].cur # TargetVersion(t)
        /\ loc[t].err = "" /\ ~Requested(loc[t])
        /\ lib[args[t].binary] = loc[t].pre

\* C16: an add for a version that was not in the library, whose download
\* verified and whose staged executable passed the probe, returns success
\* unless the rename failed; the version directory then exists with the
\* probed executable, the target is available, the rest of the library is
\* as it was and the staging directory is empty.
C16_CleanInstall ==
    [][\A t \in Threads :
          (/\ AddReturns(t)
           /\ TargetVersion(t) \notin DOMAIN loc[t].pre
           /\ loc[t].fetched /\ ~DigestMismatch(loc[t].buf, args[t].meta)
           /\ loc[t].probed /\ loc[t].err # "rename")
          => /\ loc[t].err = ""
             /\ lib'[args[t].binary] =
                   Put(loc[t].pre, TargetVersion(t), ValidDir(args[t].binary))
             /\ TargetVersion(t) \in DOMAIN lib'[args[t].binary]
             /\ CheckExecutable(lib'[args[t].binary][TargetVersion(t)], args[t].binary)
             /\ staging' = NoEntries]_vars

\* version 1.1.0 has just been installed into an empty launcher library
C16_Witness ==
    \E t \in Threads :
        /\ pc[t] = "add_unlock" /\ loc[t].err = "" /\ loc[t].probed
        /\ args[t].target = "launcher-1.1.0.tar.gz"
        /\ loc[t].pre = NoEntries
        /\ DOMAIN lib["launcher"] = {"1.1.0"}
        /\ Available("launcher", args[t].target)
        /\ staging = NoEntries

\* the download of the call was read and passed the comparison of metadata
Verified(l, meta) ==
    l.fetched /\ Len(l.buf) = meta.length /\ ~DigestMismatch(l.buf, meta)

\* C17: when the download verified but the archive is corrupt or its
\* executable fails the probe, or the untar, the chmod or the probe
\* failed, add returns an error, the library of the binary is as it was,
\* and neither the staged archive nor the staged version directory is left
\* when the call returns.
C17_LaterFailureCleansUp ==
    [][\A t \in Threads :
          (/\ AddReturns(t) /\ Verified(loc[t], args[t].meta)
           /\ \/ ArchiveKind(loc[t].buf) # "good"
              \/ loc[t].err \in {"untar", "chmod", "probe"})
          => /\ loc[t].err # ""
             /\ lib'[args[t].binary] = loc[t].pre
             /\ args[t].target \notin DOMAIN staging'
             /\ TargetVersion(t) \notin DOMAIN staging']_vars

\* the probe of a verified archive's executable has failed, the add is returning
C17_Witness ==
    \E t \in Threads :
        /\ pc[t] = "add_unlock" /\ Verified(loc[t], args[t].meta)
        /\ ArchiveKind(loc[t].buf) = "bad" /\ loc[t].err = "probe"
        /\ TargetVersion(t) \notin DOMAIN lib[args[t].binary]
        /\ staging = NoEntries

\* C18: what add does with a response depends on its first
\* target_metadata.length bytes only: the bytes hashed and buffered are the
\* response cut at that length, the verification is decided by them alone
\* (so an over-long response whose cut matches the metadata verifies), and
\* the staged file is written with exactly those bytes.
C18_OnlyDeclaredLengthUsed ==
    [][\A t \in Threads :
          /\ (pc[t] = "add_download" /\ pc'[t] # "add_download" /\ loc'[t].fetched)
             => /\ Len(loc'[t].buf) <= args[t].meta.length
                /\ loc'[t].truncated => Len(loc'[t].buf) = args[t].meta.length
                /\ (pc'[t] = "add_create")
                   <=> TargetFileMetaEqual(
                          GenerateTargetFileMeta(loc'[t].buf, DOMAIN args[t].meta.hashes),
                          args[t].meta)
          /\ (pc[t] = "add_write" /\ pc'[t] = "add_mkdir" /\ args[t].target \in DOMAIN staging')
             => staging'[args[t].target] = FileEntry(loc[t].buf)
          /\ (AddReturns(t) /\ loc[t].truncated /\ ~DigestMismatch(loc[t].buf, args[t].meta))
             => loc[t].err # "verify"]_vars

\* an add whose response ran past the declared length has installed the version
C18_Witness ==
    \E t \in Threads :
        /\ pc[t] = "add_unlock" /\ loc[t].truncated /\ loc[t].err = ""
        /\ Len(loc[t].buf) = args[t].meta.length
        /\ TargetVersion(t) \in DOMAIN lib[args[t].binary]
        /\ TargetVersion(t) \notin DOMAIN loc[t].pre

\* the response the add of t read had fewer bytes than the metadata declares
ShortResponse(l, meta) == l.fetched /\ Len(l.buf) < meta.length

\* C19: when the response has fewer bytes than target_metadata.length the
\* verification fails: the call goes from the read straight to its cleanup,
\* takes no step that writes the staged file, makes the staged version
\* directory or changes the library, and returns the verification error.
C19_ShortResponseFails ==
    [][\A t \in Threads :
          /\ (pc[t] = "add_download" /\ ShortResponse(loc'[t], args[t].meta))
             => (pc'[t] = "add_tidy_staged" /\ loc'[t].err = "verify")
          /\ (args[t].op = "add" /\ ShortResponse(loc[t], args[t].meta) /\ Steps(t))
             => /\ pc'[t] \in {"add_tidy_staged", "add_unlock", "idle"}
                /\ lib' = lib
                /\ args[t].target \notin DOMAIN staging'
                /\ TargetVersion(t) \notin DOMAIN staging'
                /\ loc[t].err = "verify"]_vars

\* an add that read a short response is returning
C19_Witness ==
    \E t \in Threads :
        /\ pc[t] = "add_unlock" /\ ShortResponse(loc[t], args[t].meta)
        /\ loc[t].err = "verify"
        /\ lib[args[t].binary] = loc[t].pre /\ staging = NoEntries

\* C20: in every reachable state a file at a staged archive path was
\* created by an add for that target that is still in flight and whose
\* download passed the verification of length and digests, and it is empty
\* or holds the verified bytes; so a failed verification never has a
\* staged file, not even for a moment.
C20_StagedOnlyAfterVerification ==
    \A name \in DOMAIN staging :
        staging[name].kind = "file"
        => \E t \in Threads :
              /\ args[t].op = "add" /\ args[t].target = name
              /\ pc[t] \in {"add_write", "add_mkdir", "add_untar", "add_chmod", "add_probe",
                            "add_rename", "add_rmstaged", "add_tidy_staged"}
              /\ Verified(loc[t], args[t].meta)
              /\ loc[t].err # "verify"
              /\ staging[name].bytes \in {<<>>, loc[t].buf}

\* the staged archive holds the verified bytes while another caller's add
\* has failed its verification
C20_Witness ==
    \E t, u \in Threads :
        /\ t # u
        /\ pc[t] = "add_mkdir" /\ args[t].target \in DOMAIN staging
        /\ staging[args[t].target] = FileEntry(loc[t].buf)
        /\ Verified(loc[t], args[t].meta)
        /\ args[u].op = "add" /\ loc[u].err = "verify" /\ pc[u] = "add_tidy_staged"

\* an AddToLibrary of the target by u has found it unavailable and has not
\* yet renamed its candidate into the library
Installing(u, binary, targetFilename) ==
    /\ args[u].op = "add" /\ args[u].binary = binary /\ args[u].target = targetFilename
    /\ pc[u] \in {"add_download", "add_create", "add_write", "add_mkdir", "add_untar",
                  "add_chmod", "add_probe", "add_rename"}

\* C21: a call of Available takes no lock and changes neither the library
\* nor the staging directory, and it returns true only when the version
\* directory is under <base>/<binary>/ with an executable that passes the
\* probe: never while a concurrent AddToLibrary of the same target has yet to
\* rename its candidate, whatever the staging directory holds.
C21_AvailableOnlyOnceInstalled ==
    [][\A t \in Threads :
          (pc[t] = "idle" /\ pc'[t] = "available_return")
          => /\ UNCHANGED <<lib, stagingExists, staging, lock>>
             /\ loc'[t].probed
                => /\ versionFromTarget(args'[t].binary, args'[t].target)
                         \in DOMAIN lib[args'[t].binary]
                   /\ CheckExecutable(
                         lib[args'[t].binary][versionFromTarget(args'[t].binary,
                                                                args'[t].target)],
                         args'[t].binary)
                   /\ \A u \in Threads :
                         ~Installing(u, args'[t].binary, args'[t].target)]_vars

\* Available has returned true for a version that only an AddToLibrary can
\* have installed, while the other caller is inside a call
C21_Witness ==
    \E t \in Threads, u \in Threads :
        /\ pc[t] = "available_return" /\ loc[t].probed
        /\ TargetVersion(t) = "1.1.0"
        /\ u # t /\ pc[u] # "idle"

\* the steps of AddToLibrary that block: the request to the mirror, the
\* write of the staged archive, the untar, the probe and the rename
BlockingSteps == {"add_download", "add_write", "add_untar", "add_probe", "add_rename"}

\* C22: once the context of the caller is cancelled during an AddToLibrary
\* in flight, no blocking step of the call completes: the step ends in an
\* error and installs nothing, and the call returns an error with the
\* staging directory empty and the lock of the binary released.
C22_CancelStopsAdd ==
    [][\A t \in Threads :
          /\ (proc.ctx = "cancelled" /\ pc[t] \in BlockingSteps /\ Steps(t))
             => (loc'[t].err # "" /\ lib' = lib)
          /\ (proc.ctx = "cancelled" /\ AddReturns(t))
             => /\ loc[t].err # ""
                /\ staging' = NoEntries
                /\ lock'[args[t].binary] = NoHolder]_vars

\* C23: the finalizer first locates the newest installed launcher, then
\* invokes the shutdown hook, then replaces the process with the located
\* binary, the argument vector and the environment being the original ones;
\* the hook is not invoked when no binary is located.
C23_LocateThenShutdownThenExec ==
    /\ proc.hook # "none" => proc.path # ""
    /\ proc.image # ""
       => /\ proc.hook # "none"
          /\ proc.image = proc.path
          /\ proc.argv = NoProcess.argv /\ proc.env = NoProcess.env

\* C24: the finalizer returns an error only when the exec itself failed; a
\* failure of the shutdown hook or of the search for the newest version is
\* logged and not returned.
C24_OnlyExecFailureReturned ==
    proc.err # "" => (proc.err = "exec updated launcher" /\ proc.path # "")

\* the finalizer has replaced the process after an AddToLibrary for the
\* launcher returned nil for a target older than the running version
RolledBack ==
    /\ proc.image # ""
    /\ last.op = "add" /\ last.binary = "launcher" /\ last.err = ""
    /\ NewVersion(last.cur).ok
    /\ VersionLess(versionFromTarget(last.binary, last.target), last.cur)

\* C25, as stated: the older target version is installed, and the
\* finalizer replaces the process with that version.
C25_Original ==
    RolledBack
    => /\ Available(last.binary, last.target)
       /\ proc.image = versionFromTarget(last.binary, last.target)

\* C25, amended: the older target version is installed, and the finalizer
\* replaces the process with the newest installed launcher version whose
\* executable passes the probe: the target version when the library holds
\* no newer one.
C25_FinalizesToNewestInstalled ==
    RolledBack
    => /\ Available(last.binary, last.target)
       /\ proc.image \in ValidVersions(lib["launcher"], "launcher")
       /\ \A w \in ValidVersions(lib["launcher"], "launcher") : ~VersionLess(proc.image, w)
       /\ (\A w \in ValidVersions(lib["launcher"], "launcher") :
              ~VersionLess(versionFromTarget(last.binary, last.target), w))
          => proc.image = versionFromTarget(last.binary, last.target)

\* version 1.1.0 was downloaded and installed while 2.0.0 ran, and the
\* finalizer replaced the process with it
C25_Witness ==
    /\ RolledBack
    /\ last.requested /\ last.cur = "2.0.0"
    /\ proc.image = "1.1.0"

\* C26: for every binary b and every well-formed semantic version v,
\* versionFromTarget(b, b + "-" + v + ".tar.gz") is v: for every release
\* of the mirror, and for the target of every call in progress.
C26_RoundTrip ==
    /\ \A b \in Binaries, v \in DOMAIN releases :
          NewVersion(v).ok => versionFromTarget(b, TargetName(b, v)) = v
    /\ \A t \in Threads :
          args[t].op \in {"add", "available"}
          => /\ TargetVersion(t) \in DOMAIN releases
             /\ TargetName(args[t].binary, TargetVersion(t)) = args[t].target

\* every release of the mirror has a well-formed version, and an
\* AddToLibrary has installed the one that ends in the extension of a target
C26_Witness ==
    /\ \A v \in DOMAIN releases : NewVersion(v).ok
    /\ "1.2.0-launcher-1+b.7" \in DOMAIN releases
    /\ "1.0.0-x.tar.gz" \in DOMAIN lib["launcher"]
    /\ CheckExecutable(lib["launcher"]["1.0.0-x.tar.gz"], "launcher")

\* C27: an AddToLibrary and a TidyLibrary take the lock of their binary
\* once, with their first step and while it is free, and never ask for it
\* while they hold it: no later step of the call, none of the helpers, takes
\* or asks for a lock.
C27_LockTakenOnce ==
    [][\A t \in Threads :
          args[t].op \in {"add", "tidy"}
          => /\ \A b \in Binaries :
                   (lock'[b] = t /\ lock[b] # t)
                   => /\ pc[t] \in {"add_lock", "tidy_lock"}
                      /\ b = args[t].binary
                      /\ lock[b] = NoHolder
             /\ pc'[t] \in {"add_lock", "tidy_lock"}
                => /\ pc[t] \in {"idle", "add_lock", "tidy_lock"}
                   /\ \A b \in Binaries : lock'[b] # t]_vars

\* a TidyLibrary waits for the lock that an AddToLibrary holds while it
\* runs tidyStagedUpdates
C27_Witness ==
    \E t \in Threads, u \in Threads :
        /\ pc[t] = "add_tidy_staged" /\ lock[args[t].binary] = t
        /\ pc[u] = "tidy_lock" /\ args[u].binary = args[t].binary

\* the positions of an AddToLibrary between its two checks and the end of
\* its deferred tidyStagedUpdates
PastChecks ==
    {"add_download", "add_create", "add_write", "add_mkdir", "add_untar", "add_chmod",
     "add_probe", "add_rename", "add_rmstaged", "add_tidy_staged"}

\* C28: an AddToLibrary that has passed its two checks reaches its unlock,
\* with or without an error, only through tidyStagedUpdates, which leaves
\* the staging directory empty while the call still holds the lock of the
\* binary; so whatever the staging directory holds belongs to an
\* AddToLibrary that has yet to run its tidyStagedUpdates, never to a call
\* that has returned.
C28_StagingEmptiedBeforeUnlock ==
    [][\A t \in Threads :
          /\ (pc[t] \in PastChecks /\ Steps(t))
             => /\ pc'[t] \in PastChecks \cup {"add_unlock"}
                /\ pc'[t] = "add_unlock"
                   => /\ pc[t] = "add_tidy_staged"
                      /\ staging' = NoEntries
                      /\ lock[args[t].binary] = t /\ lock'[args[t].binary] = t
          /\ staging' # NoEntries => \E u \in Threads : pc'[u] \in PastChecks]_vars

\* an AddToLibrary whose probe or rename failed is about to unlock, the
\* staging directory empty, while the other caller waits for the same lock
C28_Witness ==
    \E t \in Threads, u \in Threads :
        /\ pc[t] = "add_unlock" /\ loc[t].err \in {"probe", "rename"}
        /\ staging = NoEntries /\ lock[args[t].binary] = t
        /\ pc[u] \in {"add_lock", "tidy_lock"} /\ args[u].binary = args[t].binary

\* the directory of the target version is in the library and is not empty
DestinationNotEmpty(t) ==
    /\ TargetVersion(t) \in DOMAIN lib[args[t].binary]
    /\ lib[args[t].binary][TargetVersion(t)] # EmptyDir

\* C29: when the rename of the staged version directory into
\* <base>/<binary>/<version>/ fails, as it does when a directory that is
\* not empty is there already, AddToLibrary returns an error, the staged
\* version directory is removed, and <base>/<binary>/ holds what it held
\* when the call began.
C29_RenameFailureLeavesLibrary ==
    [][\A t \in Threads :
          /\ (pc[t] = "add_rename" /\ Steps(t) /\ DestinationNotEmpty(t))
             => (loc'[t].err = "rename" /\ lib' = lib)
          /\ (pc[t] = "add_rmstaged" /\ Steps(t) /\ loc[t].err = "rename")
             => TargetVersion(t) \notin DOMAIN staging'
          /\ (AddReturns(t) /\ loc[t].err = "rename")
             => /\ TargetVersion(t) \notin DOMAIN staging'
                /\ lib'[args[t].binary] = loc[t].pre]_vars

\* the rename onto the failing 1.1.0 already in the library has failed,
\* the call is about to return its error, and that directory is as it was
C29_Witness ==
    \E t \in Threads :
        /\ pc[t] = "add_unlock" /\ loc[t].err = "rename"
        /\ TargetVersion(t) = "1.1.0"
        /\ lib[args[t].binary] = loc[t].pre
        /\ "1.1.0" \in DOMAIN lib[args[t].binary]
        /\ lib[args[t].binary]["1.1.0"] = BrokenDir(args[t].binary)
        /\ staging = NoEntries

\* C30: when the mirror is unreachable, or answers with a status that is
\* not 2xx, AddToLibrary returns an error and <base>/<binary>/ holds what it
\* held when the call began, whatever the body of the response.
C30_MirrorFailureInstallsNothing ==
    [][\A t \in Threads :
          (/\ AddReturns(t)
           /\ \/ loc[t].err = "download"
              \/ loc[t].fetched /\ loc[t].status \notin 200..299)
          => /\ loc[t].err # ""
             /\ lib'[args[t].binary] = loc[t].pre]_vars

\* C31: the staging directory goes away only by the removal step of a Close
\* that holds the lock of every binary while no other call is inside a locked
\* section; Close reaches that step holding every lock, keeps them all over
\* it, and gives a lock back only in the deferred unlocks of its return.
C31_CloseRemovesUnderAllLocks ==
    [][/\ (stagingExists /\ ~stagingExists')
          => \E t \in Threads : pc[t] = "close_remove" /\ Steps(t)
       /\ \A t \in Threads :
             /\ (pc[t] = "close_remove" /\ Steps(t))
                => /\ \A b \in Binaries : lock[b] = t /\ lock'[b] = t
                   /\ \A u \in Threads \ {t} : \A b \in Binaries : ~InSection(u, b)
             /\ (args[t].op = "close" /\ \E b \in Binaries : lock[b] = t /\ lock'[b] # t)
                => pc[t] = "close_unlock"]_vars

\* Close has removed the staging directory and still holds both locks while
\* an add of the other caller waits for one of them
C31_Witness ==
    \E t, u \in Threads :
        /\ t # u
        /\ args[t].op = "close" /\ pc[t] = "close_unlock" /\ loc[t].err = ""
        /\ ~stagingExists
        /\ \A b \in Binaries : lock[b] = t
        /\ pc[u] \in {"add_lock", "tidy_lock"}

\* C33: a tidy called with an empty current running version empties the
\* staging directory, and no step of it changes <base>/<binary>/: when it
\* returns, every version directory, valid or not, is the one that was there
\* when the call took the lock.
C33_EmptyCurrentLeavesLibrary ==
    [][\A t \in Threads :
          (args[t].op = "tidy" /\ args[t].cur = "")
          => /\ (pc[t] = "tidy_staged" /\ Steps(t)) => staging' = NoEntries
             /\ Steps(t) => lib'[args[t].binary] = lib[args[t].binary]
             /\ TidyReturns(t) => lib'[args[t].binary] = loc[t].pre]_vars

\* a tidy with no current version is about to return over a library that
\* holds a valid and a failing version, both still there
C33_Witness ==
    \E t \in Threads :
        /\ args[t].op = "tidy" /\ args[t].cur = "" /\ pc[t] = "tidy_unlock"
        /\ InvalidEntries(loc[t].pre, args[t].binary) # {}
        /\ ValidVersions(loc[t].pre, args[t].binary) # {}
        /\ lib[args[t].binary] = loc[t].pre
        /\ staging = NoEntries

C35_ScanPartitionsLibrary ==
    \A b \in Binaries :
        LET scan  == sortedVersionsInLibrary(b)
            valid == {scan.versions[i] : i \in 1..Len(scan.versions)}
        IN  /\ scan.err # "" <=> ErrBadPattern(updatesDirectory(b, baseDir) \o "/*")
            /\ scan.err # "" => (scan.versions = <<>> /\ scan.invalid = {})
            /\ scan.err = ""
               => /\ valid \cup scan.invalid = DOMAIN lib[b]
                  /\ valid \cap scan.invalid = {}
                  /\ Cardinality(valid) = Len(scan.versions)
                  /\ \A n \in DOMAIN lib[b] :
                        n \in valid <=> (NewVersion(n).ok /\ CheckExecutable(lib[b][n], b))
                  /\ \A i, j \in 1..Len(scan.versions) :
                        i < j => ~VersionLess(scan.versions[j], scan.versions[i])

\* a tidy has scanned a library that holds a name that does not parse, a
\* version whose executable fails, and four working versions, and has them
\* in its two lists
C35_Witness ==
    \E t \in Threads :
        /\ pc[t] = "tidy_invalid"
        /\ loc[t].versions = <<"1.1.0", "1.2.0", "1.3.0", "1.4.0">>
        /\ loc[t].invalid = {"1.0.0", "1.1.0-brokenexe", "not-a-version"}
        /\ sortedVersionsInLibrary(args[t].binary).versions = loc[t].versions

\* C36: in a call of the finalizer the shutdown hook is invoked once, at
\* the first step and never again; whatever the hook returns, the finalizer
\* goes on to look up the newest version; when the lookup fails it returns
\* "finding newest" and the process image is untouched; otherwise it goes on
\* to the exec, which replaces the image or returns its error; and the image
\* is replaced by the exec step alone.
C36_HookOnceThenLookupThenExec ==
    [][/\ proc'.hook # proc.hook
          => \E t \in Threads : pc[t] = "fin_shutdown" /\ Steps(t) /\ proc.hook = "none"
       /\ proc'.image # proc.image
          => \E t \in Threads : pc[t] = "fin_exec" /\ Steps(t)
       /\ \A t \in Threads :
             /\ (pc[t] = "fin_shutdown" /\ Steps(t))
                => /\ proc'.hook \in {"ok", "failed"}
                   /\ pc'[t] = "fin_find" /\ proc'.err = ""
             /\ (pc[t] = "fin_find" /\ Steps(t))
                => /\ proc.hook # "none"
                   /\ IF FindNewestSelf.err # ""
                      THEN /\ pc'[t] = "idle" /\ proc'.err = "finding newest"
                           /\ proc'.image = ""
                      ELSE /\ pc'[t] = "fin_exec" /\ proc'.err = ""
                           /\ proc'.path = FindNewestSelf.binaryPath
             /\ (pc[t] = "fin_exec" /\ Steps(t))
                => \/ proc'.image = proc.path /\ proc'.err = ""
                   \/ pc'[t] = "idle" /\ proc'.err = "exec updated launcher"
                      /\ proc'.image = ""
             /\ (args[t].op = "finalize" /\ Returns(t)) => proc.hook # "none"]_vars

\* the shutdown hook returned an error and the process was replaced all the
\* same by the newest launcher of the library
C36_Witness ==
    /\ proc.hook = "failed"
    /\ proc.image # "" /\ proc.image = proc.path
    /\ proc.err = ""

\* caller t waits for the lock of binary b
WaitsFor(t, b) ==
    \/ pc[t] \in {"add_lock", "tidy_lock"} /\ args[t].binary = b
    \/ pc[t] = "close_lock" /\ binaries[loc[t].idx] = b

\* C32: with every I/O step terminating and a fair lock, every call of
\* AddToLibrary, TidyLibrary and Close that has begun returns, whatever the
\* other caller does; and never do two callers each wait for a lock the
\* other one holds.
C32_EveryCallReturns ==
    /\ \A t \in Threads : (pc[t] # "idle") ~> (pc[t] = "idle")
    /\ [](\A t, u \in Threads : \A b, c \in Binaries :
             ~(t # u /\ WaitsFor(t, b) /\ lock[b] = u /\ WaitsFor(u, c) /\ lock[c] = t))

\* Close holds the lock of the first binary and waits for the lock of the
\* second one, which an add of the other caller holds
C32_Witness ==
    \E t, u \in Threads :
        /\ t # u
        /\ args[t].op = "close" /\ pc[t] = "close_lock" /\ loc[t].idx = 2
        /\ lock[binaries[1]] = t
        /\ args[u].op = "add" /\ lock[binaries[2]] = u

\* C37: in the extension process the extension is never started and never
\* shut down more than once, and when the process ends after a successful
\* enrollment it has been started once and shut down once.
C37_StartedAndShutDownOnce ==
    /\ ext.starts <= 1 /\ ext.shutdowns <= 1
    /\ (ext.pc = "exited" /\ ext.enrolled) => (ext.starts = 1 /\ ext.shutdowns = 1)

\* C38: a call of checkExecutablePermissions never panics; it returns nil
\* exactly when the path is not empty, os.Stat succeeds, the path is no
\* directory and it ends in ".exe", and an error for every other input.
C38_NilIffExecutableFile ==
    win.pc # "called"
    => /\ win.pc = "returned"
       /\ win.err = "" <=> /\ win.potentialBinary # ""
                           /\ win.stat.err = "" /\ win.stat.info = "file"
                           /\ HasSuffix(win.potentialBinary, ".exe")

\* C39: the error encodeJSONRPCPublishResultsResponse hands to
\* encodeJSONResponse is nil when the value is a publishResultsResponse and
\* json.Marshal succeeded, and is not nil only when the type assertion or
\* the marshalling failed.
C39_NilErrorOnSuccess ==
    rpc.pc = "handed"
    => (rpc.err = "" <=> (rpc.obj = "publishResultsResponse" /\ rpc.marshal.err = ""))

====
